---- MODULE Spec2Model ----
(***************************************************************************)
(* The expression compiler of gzdoom's scripting back end                  *)
(* (src/scripting/codegeneration/codegen.cpp): the Resolve pass, which     *)
(* type-checks, folds and rewrites an expression tree, and the Emit pass,  *)
(* which allocates registers and emits VM instructions.                    *)
(*                                                                         *)
(* A tree node is a record with the fields of the C++ class and a field k  *)
(* naming the class.  A null pointer is the record Null.  Resolve threads  *)
(* the compile context (FCompileContext plus the messages printed) and     *)
(* Emit threads the function builder (VMFunctionBuilder).                  *)
(***************************************************************************)
EXTENDS Integers, Sequences, FiniteSets, TLC

\* Largest integer literal of the generated programs.
MaxInt == 2

\* Largest number of arguments of a generated min()/max() call.
MaxChoices == 3

(***************************************************************************)
(* Register classes (vm.h) and the types the expressions range over.       *)
(***************************************************************************)
REGT_INT == 0

REGT_FLOAT == 1

REGT_STRING == 2

REGT_POINTER == 3

REGT_TYPE == 3

REGT_NIL == 128

RegClasses == {REGT_INT, REGT_FLOAT, REGT_STRING, REGT_POINTER}

\* PType::GetRegType for the types used here; "nullptr" is an unset ValueType.
GetRegType(t) ==
  CASE t \in {"TypeBool", "TypeSInt32", "TypeName", "TypeSound"} -> REGT_INT
    [] t = "TypeFloat64" -> REGT_FLOAT
    [] t = "TypeString" -> REGT_STRING
    [] t \in {"TypeState", "TypeNullPtr", "TypeActor", "TypeInventory"} -> REGT_POINTER
    [] OTHER -> REGT_NIL

(***************************************************************************)
(* Numbers.  A double is an exact fraction [n, d] in lowest terms, d > 0;  *)
(* an int is an Int.  Division and remainder truncate toward zero as the   *)
(* C++ operators do.                                                       *)
(***************************************************************************)
Abs(x) == IF x < 0 THEN 0 - x ELSE x

RECURSIVE GCD(_, _)
GCD(a, b) == IF b = 0 THEN a ELSE GCD(b, a % b)

Rat(n, d) ==
  LET s == IF d < 0 THEN 0 - 1 ELSE 1
      g == GCD(Abs(n), Abs(d))
  IN  [n |-> (s * n) \div g, d |-> (s * d) \div g]

CDiv(a, b) ==
  LET q == Abs(a) \div Abs(b)
  IN  IF (a < 0) = (b < 0) THEN q ELSE 0 - q

CMod(a, b) == a - b * CDiv(a, b)

FromInt(i) == [n |-> i, d |-> 1]

\* int(double): truncation toward zero.
ToInt(r) == CDiv(r.n, r.d)

RatAdd(x, y) == Rat(x.n * y.d + y.n * x.d, x.d * y.d)

RatSub(x, y) == Rat(x.n * y.d - y.n * x.d, x.d * y.d)

RatMul(x, y) == Rat(x.n * y.n, x.d * y.d)

RatDiv(x, y) == Rat(x.n * y.d, x.d * y.n)

\* fmod(x, y) = x - y * trunc(x / y)
RatMod(x, y) == RatSub(x, RatMul(y, FromInt(ToInt(RatDiv(x, y)))))

RatLess(x, y) == x.n * y.d < y.n * x.d

RatNeg(x) == [n |-> 0 - x.n, d |-> x.d]

(***************************************************************************)
(* Nodes.                                                                  *)
(***************************************************************************)
Null == [k |-> "Null"]

IsNull(n) == n.k = "Null"

\* FxConstant: value is an Int for int-class types, a fraction for doubles,
\* a string for names and strings.
FxConstant(v, t) ==
  [k |-> "Constant", ValueType |-> t, isresolved |-> FALSE, value |-> v]

FxConstantBool(b) == FxConstant(IF b THEN 1 ELSE 0, "TypeBool")

FxConstantInt(i) == FxConstant(i, "TypeSInt32")

FxConstantFloat(r) == FxConstant(r, "TypeFloat64")

isConstant(n) == n.k = "Constant"

\* ExpVal::GetInt / GetFloat / GetBool
GetInt(c) ==
  CASE GetRegType(c.ValueType) = REGT_INT /\ c.ValueType # "TypeName" -> c.value
    [] c.ValueType = "TypeFloat64" -> ToInt(c.value)
    [] OTHER -> 0

GetFloat(c) ==
  CASE GetRegType(c.ValueType) = REGT_INT /\ c.ValueType # "TypeName" -> FromInt(c.value)
    [] c.ValueType = "TypeFloat64" -> c.value
    [] OTHER -> FromInt(0)

GetBool(c) ==
  CASE c.ValueType \in {"TypeSInt32", "TypeBool"} -> c.value # 0
    [] c.ValueType = "TypeFloat64" -> c.value.n # 0
    [] OTHER -> FALSE

\* FxExpression::IsNumeric
IsNumeric(n) ==
  /\ n.ValueType # "TypeName"
  /\ GetRegType(n.ValueType) \in {REGT_INT, REGT_FLOAT}

(***************************************************************************)
(* The compile context and the messages of a compilation.                  *)
(***************************************************************************)
\* FCompileContext after construction: no loop, no block.  Loop is the id of
\* the innermost loop being resolved (0 is nullptr), Jumps the jump lists of
\* the loops, Block the stack of open compound statements' LocalVars.  The
\* last three fields observe the compilation: the messages printed, whether
\* a null node pointer was read through, and the loops left so far.
\* Function is the function being compiled and ReturnProto the return types
\* expected of it, Null as long as none is known.
FCompileContext(fnc, ret, fromdecorate) ==
  [Loop |-> 0, Jumps |-> <<>>, Block |-> <<>>, FromDecorate |-> fromdecorate,
   Function |-> fnc, ReturnProto |-> ret,
   msgs |-> <<>>, nullread |-> FALSE, overread |-> FALSE, exits |-> <<>>]

\* A prototype: the types returned.
PPrototype(rets) == [k |-> "PPrototype", ReturnTypes |-> rets]

\* FCompileContext::CheckReturn.  The longer of the two prototypes is kept.
CheckReturn(ctx, proto) ==
  LET old == ctx.ReturnProto
      swap == Len(old.ReturnTypes) < Len(proto.ReturnTypes)
      short == IF swap THEN old ELSE proto
      long == IF swap THEN proto ELSE old
      fail == IF Len(short.ReturnTypes) = 0 THEN Len(long.ReturnTypes) # 0
              ELSE \E i \in 1..Len(short.ReturnTypes) :
                     long.ReturnTypes[i] # short.ReturnTypes[i]
      kept == [ctx EXCEPT !.ReturnProto = long]
  IN  IF old.k = "Null" THEN [ctx EXCEPT !.ReturnProto = proto]
      ELSE IF fail
      THEN [kept EXCEPT !.msgs = Append(@, [sev |-> "MSG_ERROR",
                                             text |-> "All return expressions must deduce to the same type"])]
      ELSE kept

\* A function of the class of self: its name, its flags, the types of its
\* arguments, the implicit ones first, and the types it returns.
PFunction(name, flags, argtypes, rets) ==
  [k |-> "PFunction", SymbolName |-> name, Flags |-> flags, ArgumentTypes |-> argtypes,
   ReturnTypes |-> rets]

\* The functions that are compiled: a method of an actor class or an action
\* function of it.
Callers ==
  {PFunction("caller", {"VARF_Method"}, <<"TypeActor", "TypeSInt32", "TypeFloat64">>, <<>>),
   PFunction("caller", {"VARF_Method", "VARF_Action"},
             <<"TypeActor", "TypeActor", "TypeState", "TypeSInt32", "TypeFloat64">>, <<>>)}

\* The function being compiled: a member function of an actor class with an
\* int and a float argument, which the caller of the compiler has placed in
\* the first register of their classes; self is pointer register 0.
FunctionArgs ==
  << [k |-> "Decl", id |-> "i", Name |-> "i", ValueType |-> "TypeSInt32", VarFlags |-> "none"],
     [k |-> "Decl", id |-> "f", Name |-> "f", ValueType |-> "TypeFloat64", VarFlags |-> "none"] >>

\* The fields of the class of self: name, type, offset and flags.  args is
\* an array of two ints, the last two fields cannot be written.
ClassSymbols ==
  << [k |-> "PField", SymbolName |-> "health", Type |-> "TypeSInt32", Offset |-> 1,
      Flags |-> "none"],
     [k |-> "PField", SymbolName |-> "speed", Type |-> "TypeFloat64", Offset |-> 2,
      Flags |-> "none"],
     [k |-> "PField", SymbolName |-> "dormant", Type |-> "TypeBool", Offset |-> 3,
      Flags |-> "none"],
     [k |-> "PField", SymbolName |-> "args", Type |-> "TypeArgs", Offset |-> 4,
      Flags |-> "none"],
     [k |-> "PField", SymbolName |-> "mass", Type |-> "TypeSInt32", Offset |-> 12,
      Flags |-> "VARF_ReadOnly"],
     [k |-> "PField", SymbolName |-> "spawnargs", Type |-> "TypeArgs", Offset |-> 16,
      Flags |-> "VARF_ReadOnly"],
     [k |-> "PField", SymbolName |-> "target", Type |-> "TypeActor", Offset |-> 24,
      Flags |-> "none"],
     [k |-> "PField", SymbolName |-> "item", Type |-> "TypeInventory", Offset |-> 28,
      Flags |-> "none"],
     [k |-> "PField", SymbolName |-> "curstate", Type |-> "TypeState", Offset |-> 32,
      Flags |-> "none"],
     [k |-> "PField", SymbolName |-> "species", Type |-> "TypeName", Offset |-> 36,
      Flags |-> "none"],
     [k |-> "PField", SymbolName |-> "activesound", Type |-> "TypeSound", Offset |-> 40,
      Flags |-> "none"] >>

\* dyn_cast<PArray>: the array type's element type, count and size, or Null.
PArray(type) ==
  IF type = "TypeArgs"
  THEN [k |-> "PArray", ElementType |-> "TypeSInt32", ElementCount |-> 2, ElementSize |-> 4]
  ELSE Null

\* FCompileContext::FindInClass: the field record, or Null.
FindInClass(identifier) ==
  LET hit == SelectSeq(ClassSymbols, LAMBDA s : s.SymbolName = identifier)
  IN  IF hit = <<>> THEN Null ELSE hit[1]

\* FxCompoundStatement::FindLocalVariable, from the innermost block outward
\* (ctx.Block is the stack of open blocks, innermost last), then the
\* function's arguments.
RECURSIVE FindInBlocks(_, _)
FindInBlocks(blocks, name) ==
  IF blocks = <<>>
  THEN LET a == SelectSeq(FunctionArgs, LAMBDA l : l.Name = name)
       IN  IF a = <<>> THEN Null ELSE a[1]
  ELSE LET l == SelectSeq(blocks[Len(blocks)], LAMBDA v : v.Name = name)
       IN  IF l # <<>> THEN l[1]
           ELSE FindInBlocks(SubSeq(blocks, 1, Len(blocks) - 1), name)

\* FCompileContext::FindLocalVariable
FindLocalVariable(ctx, name) ==
  IF ctx.Block = <<>> THEN Null ELSE FindInBlocks(ctx.Block, name)

Message(ctx, sev, text) ==
  [ctx EXCEPT !.msgs = Append(@, [sev |-> sev, text |-> text])]

\* A message that prints the number of arguments expected and the number got.
MessageCounts(ctx, sev, text, expected, got) ==
  [ctx EXCEPT !.msgs = Append(@, [sev |-> sev, text |-> text, expected |-> expected,
                                   got |-> got])]

RR(n, c) == [n |-> n, c |-> c]

(***************************************************************************)
(* Resolve.  Every operator below is the Resolve method of one class; it   *)
(* yields RR(node, ctx): the node returned (Null for nullptr) and the      *)
(* context after the call.  "this" is the node with isresolved set, as     *)
(* CHECKRESOLVED leaves it.                                                *)
(***************************************************************************)
RECURSIVE Resolve(_, _)

\* FxExpression::Resolve, which FxConstant inherits.
FxExpression_Resolve(n, ctx) == RR([n EXCEPT !.isresolved = TRUE], ctx)

FxIdentifier(name) ==
  [k |-> "Identifier", ValueType |-> "nullptr", isresolved |-> FALSE,
   Identifier |-> name]

FxLocalVariable(var) ==
  [k |-> "LocalVariable", ValueType |-> var.ValueType, isresolved |-> FALSE,
   Variable |-> var, AddressRequested |-> FALSE]

FxSelf ==
  [k |-> "Self", ValueType |-> "nullptr", isresolved |-> FALSE]

FxClassMember(x, mem) ==
  [k |-> "ClassMember", ValueType |-> "nullptr", isresolved |-> FALSE,
   classx |-> x, membervar |-> mem, AddressRequested |-> FALSE]

FxLocalVariable_Resolve(n, ctx) ==
  IF n.isresolved THEN RR(n, ctx) ELSE RR([n EXCEPT !.isresolved = TRUE], ctx)

\* The function compiled is a member function, so self is available.
FxSelf_Resolve(n, ctx) ==
  IF n.isresolved THEN RR(n, ctx)
  ELSE RR([n EXCEPT !.isresolved = TRUE, !.ValueType = "TypeActor"], ctx)

FxClassMember_Resolve(n, ctx) ==
  IF n.isresolved THEN RR(n, ctx)
  ELSE LET r == Resolve(n.classx, ctx)
       IN  IF IsNull(r.n) THEN RR(Null, r.c)
           ELSE IF r.n.ValueType # "TypeActor"
           THEN RR(Null, Message(r.c, "MSG_ERROR", "Member variable requires a class or object"))
           ELSE RR([n EXCEPT !.isresolved = TRUE, !.classx = r.n,
                             !.ValueType = n.membervar.Type], r.c)

\* Locals first, then the fields of the class; there are no global symbols
\* and no line specials with the names used here.
FxIdentifier_Resolve(n, ctx) ==
  IF n.isresolved THEN RR(n, ctx)
  ELSE LET local == FindLocalVariable(ctx, n.Identifier)
           sym == FindInClass(n.Identifier)
       IN  IF ~IsNull(local) THEN Resolve(FxLocalVariable(local), ctx)
           ELSE IF ~IsNull(sym)
           THEN LET self == Resolve(FxSelf, ctx)
                IN  Resolve(FxClassMember(self.n, sym), self.c)
           ELSE RR(Null, Message(ctx, "MSG_ERROR", "Unknown identifier"))

(***************************************************************************)
(* Casts.                                                                  *)
(***************************************************************************)
FxBoolCast(x) ==
  [k |-> "BoolCast", ValueType |-> "TypeBool", isresolved |-> FALSE, basex |-> x]

FxIntCast(x, nowarn) ==
  [k |-> "IntCast", ValueType |-> "TypeSInt32", isresolved |-> FALSE, basex |-> x,
   NoWarn |-> nowarn]

FxFloatCast(x) ==
  [k |-> "FloatCast", ValueType |-> "TypeFloat64", isresolved |-> FALSE, basex |-> x]

FxNameCast(x) ==
  [k |-> "NameCast", ValueType |-> "TypeName", isresolved |-> FALSE, basex |-> x]

FxStringCast(x) ==
  [k |-> "StringCast", ValueType |-> "TypeString", isresolved |-> FALSE, basex |-> x]

\* The constructor stores the operand and the type only: NoWarn keeps whatever
\* the node's memory held, which the last argument stands for.
FxTypeCast(x, type, nowarn, garbage) ==
  [k |-> "TypeCast", ValueType |-> type, isresolved |-> FALSE, basex |-> x,
   NoWarn |-> garbage]

FxBoolCast_Resolve(n, ctx) ==
  IF n.isresolved THEN RR(n, ctx)
  ELSE LET r == Resolve(n.basex, ctx)
           basex == r.n
       IN  IF IsNull(basex) THEN RR(Null, r.c)
           ELSE IF basex.ValueType = "TypeBool" THEN RR(basex, r.c)
           ELSE IF GetRegType(basex.ValueType) \in {REGT_INT, REGT_FLOAT, REGT_POINTER}
           THEN IF isConstant(basex) THEN RR(FxConstantBool(GetBool(basex)), r.c)
                ELSE RR([n EXCEPT !.isresolved = TRUE, !.basex = basex], r.c)
           ELSE RR(Null, Message(r.c, "MSG_ERROR", "Numeric type expected"))

\* Whether the folded int differs from the double it came from.
Truncates(c) == FromInt(GetInt(c)) # GetFloat(c)

FxIntCast_Resolve(n, ctx) ==
  IF n.isresolved THEN RR(n, ctx)
  ELSE LET r == Resolve(n.basex, ctx)
           basex == r.n
       IN  IF IsNull(basex) THEN RR(Null, r.c)
           ELSE IF GetRegType(basex.ValueType) = REGT_INT
           THEN IF basex.ValueType # "TypeName" THEN RR(basex, r.c)
                ELSE RR(FxConstantInt(0),
                        Message(r.c, "MSG_OPTERROR", "Numeric type expected, got a name"))
           ELSE IF GetRegType(basex.ValueType) = REGT_FLOAT
           THEN IF isConstant(basex)
                THEN RR(FxConstantInt(GetInt(basex)),
                        IF ~n.NoWarn /\ Truncates(basex)
                        THEN Message(r.c, "MSG_WARNING", "Truncation of floating point constant")
                        ELSE r.c)
                ELSE RR([n EXCEPT !.isresolved = TRUE, !.basex = basex],
                        IF ~n.NoWarn
                        THEN Message(r.c, "MSG_WARNING", "Truncation of floating point value")
                        ELSE r.c)
           ELSE RR(Null, Message(r.c, "MSG_ERROR", "Numeric type expected"))

FxFloatCast_Resolve(n, ctx) ==
  IF n.isresolved THEN RR(n, ctx)
  ELSE LET r == Resolve(n.basex, ctx)
           basex == r.n
       IN  IF IsNull(basex) THEN RR(Null, r.c)
           ELSE IF GetRegType(basex.ValueType) = REGT_FLOAT THEN RR(basex, r.c)
           ELSE IF GetRegType(basex.ValueType) = REGT_INT
           THEN IF basex.ValueType # "TypeName"
                THEN IF isConstant(basex) THEN RR(FxConstantFloat(GetFloat(basex)), r.c)
                     ELSE RR([n EXCEPT !.isresolved = TRUE, !.basex = basex], r.c)
                ELSE RR(FxConstantFloat(FromInt(0)),
                        Message(r.c, "MSG_OPTERROR", "Numeric type expected, got a name"))
           ELSE RR(Null, Message(r.c, "MSG_ERROR", "Numeric type expected"))

FxNameCast_Resolve(n, ctx) ==
  IF n.isresolved THEN RR(n, ctx)
  ELSE LET r == Resolve(n.basex, ctx)
           basex == r.n
       IN  IF IsNull(basex) THEN RR(Null, r.c)
           ELSE IF basex.ValueType = "TypeName" THEN RR(basex, r.c)
           ELSE IF basex.ValueType = "TypeString"
           THEN IF isConstant(basex) THEN RR(FxConstant(basex.value, "TypeName"), r.c)
                ELSE RR([n EXCEPT !.isresolved = TRUE, !.basex = basex], r.c)
           ELSE RR(Null, Message(r.c, "MSG_ERROR", "Cannot convert to name"))

\* S_sfx[i].name: the name of the sound with index i.
S_sfx(i) == IF i = 0 THEN "" ELSE "sound"

FxStringCast_Resolve(n, ctx) ==
  IF n.isresolved THEN RR(n, ctx)
  ELSE LET r == Resolve(n.basex, ctx)
           basex == r.n
       IN  IF IsNull(basex) THEN RR(Null, r.c)
           ELSE IF basex.ValueType = "TypeString" THEN RR(basex, r.c)
           ELSE IF basex.ValueType = "TypeName"
           THEN IF isConstant(basex) THEN RR(FxConstant(basex.value, "TypeString"), r.c)
                ELSE RR([n EXCEPT !.isresolved = TRUE, !.basex = basex], r.c)
           ELSE IF basex.ValueType = "TypeSound"
           THEN IF isConstant(basex)
                THEN RR(FxConstant(S_sfx(GetInt(basex)), "TypeString"), r.c)
                ELSE RR([n EXCEPT !.isresolved = TRUE, !.basex = basex], r.c)
           ELSE RR(Null, Message(r.c, "MSG_ERROR", "Cannot convert to string"))

\* The generic cast, for the target types bool, int, double, name and string.
FxTypeCast_Resolve(n, ctx) ==
  IF n.isresolved THEN RR(n, ctx)
  ELSE LET r == Resolve(n.basex, ctx)
           basex == r.n
       IN  IF IsNull(basex) THEN RR(Null, r.c)
           ELSE IF basex.ValueType \in {"TypeVoid", "nullptr"}
           THEN RR(Null, Message(r.c, "MSG_ERROR", "Cannot convert"))
           ELSE IF basex.ValueType = n.ValueType THEN RR(basex, r.c)
           ELSE IF GetRegType(n.ValueType) = REGT_FLOAT THEN Resolve(FxFloatCast(basex), r.c)
           ELSE IF n.ValueType = "TypeSInt32" THEN Resolve(FxIntCast(basex, n.NoWarn), r.c)
           ELSE IF n.ValueType = "TypeBool" THEN Resolve(FxBoolCast(basex), r.c)
           ELSE IF n.ValueType = "TypeString" THEN Resolve(FxStringCast(basex), r.c)
           ELSE IF n.ValueType = "TypeName" THEN Resolve(FxNameCast(basex), r.c)
           ELSE RR(Null, Message(r.c, "MSG_ERROR", "Cannot convert"))

(***************************************************************************)
(* Binary operators.                                                       *)
(***************************************************************************)
FxBinary(kind, o, l, r) ==
  [k |-> kind, ValueType |-> "nullptr", isresolved |-> FALSE, Operator |-> o,
   left |-> l, right |-> r]

FxAddSub(o, l, r) == FxBinary("AddSub", o, l, r)

FxMulDiv(o, l, r) == FxBinary("MulDiv", o, l, r)

\* The class a pointer type points to, Null if it points to no class, and
\* PClass::IsDescendantOf: an Inventory is an Actor.
PointedClass(t) ==
  CASE t = "TypeActor" -> "Actor"
    [] t = "TypeInventory" -> "Inventory"
    [] OTHER -> "none"

IsDescendantOf(cls, of) == cls = of \/ (cls = "Inventory" /\ of = "Actor")

\* The null pointer's type is no PPointer.
AreCompatiblePointerTypes(dest, source) ==
  /\ dest \in {"TypeState", "TypeActor", "TypeInventory"}
  /\ source \in {"TypeState", "TypeActor", "TypeInventory"}
  /\ \/ source = dest
     \/ /\ PointedClass(source) # "none" /\ PointedClass(dest) # "none"
        /\ IsDescendantOf(PointedClass(source), PointedClass(dest))

\* FxBinary::ResolveLR: [ok, n, c], n being this with its operands resolved
\* and its ValueType unified.  A pointer on the left with anything that is
\* not compatible with it on the right leaves ValueType as it was.
FxBinary_ResolveLR(n, ctx) ==
  LET l == Resolve(n.left, ctx)
      r == Resolve(n.right, l.c)
      lt == l.n.ValueType
      rt == r.n.ValueType
      vt == IF lt = "TypeBool" /\ rt = "TypeBool" THEN "TypeBool"
            ELSE IF lt = "TypeName" /\ rt = "TypeName" THEN "TypeName"
            ELSE IF IsNumeric(l.n) /\ IsNumeric(r.n)
            THEN IF GetRegType(lt) = REGT_INT /\ GetRegType(rt) = REGT_INT
                 THEN "TypeSInt32" ELSE "TypeFloat64"
            ELSE IF GetRegType(lt) = REGT_POINTER
            THEN IF lt = rt \/ rt = "TypeNullPtr" \/ lt = "TypeNullPtr"
                    \/ AreCompatiblePointerTypes(lt, rt)
                 THEN "TypeBool" ELSE n.ValueType
            ELSE "TypeVoid"
  IN  IF IsNull(l.n) \/ IsNull(r.n)
      THEN [ok |-> FALSE, n |-> Null, c |-> r.c]
      ELSE [ok |-> TRUE, c |-> r.c,
            n |-> [n EXCEPT !.left = l.n, !.right = r.n, !.ValueType = vt]]

\* FxBinary::Promote: a float cast around the int side of a mixed pair.
FxBinary_Promote(n, ctx) ==
  IF GetRegType(n.left.ValueType) = REGT_FLOAT /\ GetRegType(n.right.ValueType) = REGT_INT
  THEN LET x == Resolve(FxFloatCast(n.right), ctx)
       IN  RR([n EXCEPT !.right = x.n], x.c)
  ELSE IF GetRegType(n.left.ValueType) = REGT_INT /\ GetRegType(n.right.ValueType) = REGT_FLOAT
  THEN LET x == Resolve(FxFloatCast(n.left), ctx)
       IN  RR([n EXCEPT !.left = x.n], x.c)
  ELSE RR(n, ctx)

\* The folds of FxAddSub::Resolve, on doubles and on ints.
AddSubFloat(o, v1, v2) ==
  IF o = "+" THEN RatAdd(v1, v2) ELSE IF o = "-" THEN RatSub(v1, v2) ELSE FromInt(0)

\* A faulty variant of the int fold of FxAddSub::Resolve, which subtracts
\* whatever the operator; C7 must tell it from the real one.
AddSubAlwaysSub(o, v1, v2) == v1 - v2

AddSubInt(o, v1, v2) ==
  IF o = "+" THEN v1 + v2 ELSE IF o = "-" THEN v1 - v2 ELSE 0

FxAddSub_Resolve(n, ctx) ==
  IF n.isresolved THEN RR(n, ctx)
  ELSE LET lr == FxBinary_ResolveLR([n EXCEPT !.isresolved = TRUE], ctx)
           this == lr.n
       IN  IF ~lr.ok THEN RR(Null, lr.c)
           ELSE IF ~IsNumeric(this)
           THEN RR(Null, Message(lr.c, "MSG_ERROR", "Numeric type expected"))
           ELSE IF isConstant(this.left) /\ isConstant(this.right)
           THEN IF GetRegType(this.ValueType) = REGT_FLOAT
                THEN RR(FxConstantFloat(AddSubFloat(this.Operator, GetFloat(this.left),
                                                    GetFloat(this.right))), lr.c)
                ELSE RR(FxConstantInt(AddSubInt(this.Operator, GetInt(this.left),
                                                GetInt(this.right))), lr.c)
           ELSE FxBinary_Promote(this, lr.c)

\* The folds of FxMulDiv::Resolve; the divisor is not zero.
MulDivFloat(o, v1, v2) ==
  CASE o = "*" -> RatMul(v1, v2)
    [] o = "/" -> RatDiv(v1, v2)
    [] o = "%" -> RatMod(v1, v2)
    [] OTHER -> FromInt(0)

MulDivInt(o, v1, v2) ==
  CASE o = "*" -> v1 * v2
    [] o = "/" -> CDiv(v1, v2)
    [] o = "%" -> CMod(v1, v2)
    [] OTHER -> 0

FxMulDiv_Resolve(n, ctx) ==
  IF n.isresolved THEN RR(n, ctx)
  ELSE LET lr == FxBinary_ResolveLR([n EXCEPT !.isresolved = TRUE], ctx)
           this == lr.n
       IN  IF ~lr.ok THEN RR(Null, lr.c)
           ELSE IF ~IsNumeric(this)
           THEN RR(Null, Message(lr.c, "MSG_ERROR", "Numeric type expected"))
           ELSE IF isConstant(this.left) /\ isConstant(this.right)
           THEN IF GetRegType(this.ValueType) = REGT_FLOAT
                THEN IF this.Operator # "*" /\ GetFloat(this.right) = FromInt(0)
                     THEN RR(Null, Message(lr.c, "MSG_ERROR", "Division by 0"))
                     ELSE RR(FxConstantFloat(MulDivFloat(this.Operator, GetFloat(this.left),
                                                         GetFloat(this.right))), lr.c)
                ELSE IF this.Operator # "*" /\ GetInt(this.right) = 0
                     THEN RR(Null, Message(lr.c, "MSG_ERROR", "Division by 0"))
                     ELSE RR(FxConstantInt(MulDivInt(this.Operator, GetInt(this.left),
                                                     GetInt(this.right))), lr.c)
           ELSE FxBinary_Promote(this, lr.c)

FxCompareRel(o, l, r) == FxBinary("CompareRel", o, l, r)

FxCompareEq(o, l, r) == FxBinary("CompareEq", o, l, r)

\* The constructor of <>= presets the result type.
FxLtGtEq(l, r) == [FxBinary("LtGtEq", "<>=", l, r) EXCEPT !.ValueType = "TypeSInt32"]

FxBinaryLogical(o, l, r) ==
  [k |-> "BinaryLogical", ValueType |-> "TypeBool", isresolved |-> FALSE,
   Operator |-> o, left |-> l, right |-> r]

\* The fold of FxCompareRel::Resolve, as the int the C++ comparison yields.
CompareRelFold(o, v1, v2) ==
  LET lt == RatLess(v1, v2)
      gt == RatLess(v2, v1)
      b == CASE o = "<" -> lt
             [] o = ">" -> gt
             [] o = ">=" -> ~lt
             [] o = "<=" -> ~gt
             [] OTHER -> FALSE
  IN  IF b THEN 1 ELSE 0

FxCompareRel_Resolve(n, ctx) ==
  IF n.isresolved THEN RR(n, ctx)
  ELSE LET lr == FxBinary_ResolveLR([n EXCEPT !.isresolved = TRUE], ctx)
           this == lr.n
           p == FxBinary_Promote(this, lr.c)
       IN  IF ~lr.ok THEN RR(Null, lr.c)
           ELSE IF ~IsNumeric(this)
           THEN RR(Null, Message(lr.c, "MSG_ERROR", "Numeric type expected"))
           ELSE IF isConstant(this.left) /\ isConstant(this.right)
           THEN RR(FxConstantInt(CompareRelFold(this.Operator, GetFloat(this.left),
                                                GetFloat(this.right))), lr.c)
           ELSE RR([p.n EXCEPT !.ValueType = "TypeBool"], p.c)

\* FxExpression::IsPointer
IsPointer(n) == GetRegType(n.ValueType) = REGT_POINTER

\* The fold of FxCompareEq::Resolve, as the int the C++ comparison yields.
CompareEqFold(o, float, l, r) ==
  LET eq == IF float THEN GetFloat(l) = GetFloat(r) ELSE GetInt(l) = GetInt(r)
  IN  IF (o = "==") = eq THEN 1 ELSE 0

\* FxCompareEq::Resolve.  The type ResolveLR left unset is read through:
\* nullread records it, and a compiler that gets past the read finds no
\* numeric type there.
FxCompareEq_Resolve(n, ctx) ==
  IF n.isresolved THEN RR(n, ctx)
  ELSE LET lr == FxBinary_ResolveLR([n EXCEPT !.isresolved = TRUE], ctx)
           this == lr.n
           p == FxBinary_Promote(this, lr.c)
       IN  IF ~lr.ok THEN RR(Null, lr.c)
           ELSE IF this.ValueType = "nullptr"
           THEN RR(Null, Message([lr.c EXCEPT !.nullread = TRUE], "MSG_ERROR",
                                 "Numeric type expected"))
           ELSE IF ~IsNumeric(this) /\ ~IsPointer(this) /\ this.ValueType # "TypeName"
           THEN RR(Null, Message(lr.c, "MSG_ERROR", "Numeric type expected"))
           ELSE IF isConstant(this.left) /\ isConstant(this.right)
           THEN RR(FxConstantInt(CompareEqFold(this.Operator,
                                               GetRegType(this.ValueType) = REGT_FLOAT,
                                               this.left, this.right)), lr.c)
           ELSE RR([p.n EXCEPT !.ValueType = "TypeBool"], p.c)

\* FxLtGtEq::Resolve.  For operands of different register classes an int
\* left operand is wrapped in a resolved float cast; an int right operand is
\* replaced by an unresolved float cast around the LEFT operand.
FxLtGtEq_Resolve(n, ctx) ==
  IF n.isresolved THEN RR(n, ctx)
  ELSE LET lr == FxBinary_ResolveLR([n EXCEPT !.isresolved = TRUE], ctx)
           this == lr.n
           v1 == GetFloat(this.left)
           v2 == GetFloat(this.right)
           lc == Resolve(FxFloatCast(this.left), lr.c)
       IN  IF ~lr.ok THEN RR(Null, lr.c)
           ELSE IF ~IsNumeric(this.left) \/ ~IsNumeric(this.right)
           THEN RR(Null, Message(lr.c, "MSG_ERROR", "<>= expects two numeric operands"))
           ELSE IF GetRegType(this.left.ValueType) # GetRegType(this.right.ValueType)
           THEN IF GetRegType(this.left.ValueType) = REGT_INT
                THEN IF IsNull(lc.n) THEN RR(Null, lc.c)
                     ELSE RR([this EXCEPT !.left = lc.n], lc.c)
                ELSE RR([this EXCEPT !.right = FxFloatCast(this.left)], lr.c)
           ELSE IF isConstant(this.left) /\ isConstant(this.right)
           THEN RR(FxConstantInt(IF RatLess(v1, v2) THEN 0 - 1
                                 ELSE IF RatLess(v2, v1) THEN 1 ELSE 0), lr.c)
           ELSE RR(this, lr.c)

\* The value of a side of && or ||: 1 or 0 for a constant, -1 otherwise.
LogicalSide(x) == IF isConstant(x) THEN (IF GetBool(x) THEN 1 ELSE 0) ELSE 0 - 1

\* The optimisation of FxBinaryLogical::Resolve on the two resolved,
\* bool-typed operands: the node returned.
FxBinaryLogical_Fold(this) ==
  LET b_left == LogicalSide(this.left)
      b_right == LogicalSide(this.right)
  IN  IF this.Operator = "&&"
      THEN IF b_left = 0 \/ b_right = 0 THEN FxConstantBool(TRUE)
           ELSE IF b_left = 1 /\ b_right = 1 THEN FxConstantBool(FALSE)
           ELSE IF b_left = 1 THEN this.right
           ELSE IF b_right = 1 THEN this.left
           ELSE this
      ELSE IF this.Operator = "||"
      THEN IF b_left = 1 \/ b_right = 1 THEN FxConstantBool(TRUE)
           ELSE IF b_left = 0 /\ b_right = 0 THEN FxConstantBool(FALSE)
           ELSE IF b_left = 0 THEN this.right
           ELSE IF b_right = 0 THEN this.left
           ELSE this
      ELSE this

\* A bool cast around a side of && or || that is not a bool.
LogicalOperand(x, ctx) ==
  IF x.ValueType # "TypeBool" THEN Resolve(FxBoolCast(x), ctx) ELSE RR(x, ctx)

FxBinaryLogical_Resolve(n, ctx) ==
  IF n.isresolved THEN RR(n, ctx)
  ELSE LET l == Resolve(n.left, ctx)
           r == Resolve(n.right, l.c)
           lb == LogicalOperand(l.n, r.c)
           rb == LogicalOperand(r.n, lb.c)
       IN  IF IsNull(l.n) \/ IsNull(r.n) THEN RR(Null, r.c)
           ELSE IF IsNull(lb.n) THEN RR(Null, lb.c)
           ELSE IF IsNull(rb.n) THEN RR(Null, rb.c)
           ELSE RR(FxBinaryLogical_Fold([n EXCEPT !.isresolved = TRUE,
                                                  !.left = lb.n, !.right = rb.n]), rb.c)

(***************************************************************************)
(* ?:, abs, min and max.                                                   *)
(***************************************************************************)
FxConditional(c, t, f) ==
  [k |-> "Conditional", ValueType |-> "nullptr", isresolved |-> FALSE,
   condition |-> c, truex |-> t, falsex |-> f]

FxMinusSign(operand) ==
  [k |-> "MinusSign", ValueType |-> "nullptr", isresolved |-> FALSE, Operand |-> operand]

FxMinusSign_Resolve(n, ctx) ==
  IF n.isresolved THEN RR(n, ctx)
  ELSE LET r == Resolve(n.Operand, ctx)
       IN  IF IsNull(r.n) THEN RR(Null, r.c)
           ELSE IF ~IsNumeric(r.n)
           THEN RR(Null, Message(r.c, "MSG_ERROR", "Numeric type expected"))
           ELSE IF isConstant(r.n)
           THEN IF GetRegType(r.n.ValueType) = REGT_INT
                THEN RR(FxConstantInt(0 - r.n.value), r.c)
                ELSE RR(FxConstantFloat(RatNeg(r.n.value)), r.c)
           ELSE RR([n EXCEPT !.isresolved = TRUE, !.Operand = r.n,
                             !.ValueType = r.n.ValueType], r.c)

FxAbs(v) ==
  [k |-> "Abs", ValueType |-> v.ValueType, isresolved |-> FALSE, val |-> v]

FxMinMax(expr, type) ==
  [k |-> "MinMax", ValueType |-> "nullptr", isresolved |-> FALSE, Type |-> type,
   choices |-> expr]

\* A float cast around a branch of ?: that is not a float.
ConditionalBranch(x, ctx) ==
  IF GetRegType(x.ValueType) # REGT_FLOAT THEN Resolve(FxFloatCast(x), ctx) ELSE RR(x, ctx)

FxConditional_Resolve(n, ctx) ==
  IF n.isresolved THEN RR(n, ctx)
  ELSE LET c == Resolve(n.condition, ctx)
           t == Resolve(n.truex, c.c)
           f == Resolve(n.falsex, t.c)
           vt == IF t.n.ValueType = "TypeBool" /\ f.n.ValueType = "TypeBool" THEN "TypeBool"
                 ELSE IF GetRegType(t.n.ValueType) = REGT_INT
                         /\ GetRegType(f.n.ValueType) = REGT_INT THEN "TypeSInt32"
                 ELSE IF IsNumeric(t.n) /\ IsNumeric(f.n) THEN "TypeFloat64"
                 ELSE n.ValueType
           cb == IF c.n.ValueType # "TypeBool" THEN Resolve(FxBoolCast(c.n), f.c)
                 ELSE RR(c.n, f.c)
           tf == ConditionalBranch(t.n, cb.c)
           ff == ConditionalBranch(f.n, tf.c)
       IN  IF IsNull(c.n) \/ IsNull(t.n) \/ IsNull(f.n) THEN RR(Null, f.c)
           ELSE IF IsNull(cb.n) THEN RR(Null, cb.c)
           ELSE IF isConstant(cb.n) THEN RR(IF GetBool(cb.n) THEN t.n ELSE f.n, cb.c)
           ELSE IF GetRegType(vt) = REGT_FLOAT
           THEN RR([n EXCEPT !.isresolved = TRUE, !.ValueType = vt, !.condition = cb.n,
                             !.truex = tf.n, !.falsex = ff.n], ff.c)
           ELSE RR([n EXCEPT !.isresolved = TRUE, !.ValueType = vt, !.condition = cb.n,
                             !.truex = t.n, !.falsex = f.n], cb.c)

FxAbs_Resolve(n, ctx) ==
  IF n.isresolved THEN RR(n, ctx)
  ELSE LET r == Resolve(n.val, ctx)
           val == r.n
       IN  IF IsNull(val) THEN RR(Null, r.c)
           ELSE IF ~IsNumeric(val)
           THEN RR(Null, Message(r.c, "MSG_ERROR", "Numeric type expected"))
           ELSE IF isConstant(val)
           THEN IF GetRegType(val.ValueType) = REGT_INT
                THEN RR(FxConstant(Abs(val.value), val.ValueType), r.c)
                ELSE RR(FxConstant([n |-> Abs(val.value.n), d |-> val.value.d],
                                   val.ValueType), r.c)
           ELSE RR([n EXCEPT !.isresolved = TRUE, !.val = val, !.ValueType = val.ValueType],
                   r.c)

\* The first loop of FxMinMax::Resolve from choice i on: every choice is
\* resolved and must be an int or a float.
RECURSIVE MinMaxResolveChoices(_, _, _)
MinMaxResolveChoices(choices, i, ctx) ==
  IF i > Len(choices) THEN [ok |-> TRUE, choices |-> choices, c |-> ctx]
  ELSE LET r == Resolve(choices[i], ctx)
           rt == GetRegType(r.n.ValueType)
       IN  IF IsNull(r.n) THEN [ok |-> FALSE, choices |-> <<>>, c |-> r.c]
           ELSE IF rt = REGT_FLOAT \/ (rt = REGT_INT /\ r.n.ValueType # "TypeName")
           THEN MinMaxResolveChoices([choices EXCEPT ![i] = r.n], i + 1, r.c)
           ELSE [ok |-> FALSE, choices |-> <<>>,
                 c |-> Message(r.c, "MSG_ERROR", "Arguments must be of type int or float")]

\* The second loop: a float cast around every int choice of a mixed list.
RECURSIVE MinMaxCastChoices(_, _, _)
MinMaxCastChoices(choices, i, ctx) ==
  IF i > Len(choices) THEN [ok |-> TRUE, choices |-> choices, c |-> ctx]
  ELSE IF GetRegType(choices[i].ValueType) = REGT_INT
  THEN LET r == Resolve(FxFloatCast(choices[i]), ctx)
       IN  IF IsNull(r.n) THEN [ok |-> FALSE, choices |-> <<>>, c |-> r.c]
           ELSE MinMaxCastChoices([choices EXCEPT ![i] = r.n], i + 1, r.c)
  ELSE MinMaxCastChoices(choices, i + 1, ctx)

\* A faulty variant of the comparison of FxMinMax::Resolve, which keeps the
\* first constant; C8 must tell it from the real one.
MinMaxKeepFirst(type, best, value) == best

\* The better of the best value so far and the value of a later constant.
MinMaxBest(type, best, value) ==
  IF GetRegType(value.ValueType) = REGT_FLOAT
  THEN IF type = "Min"
       THEN (IF RatLess(value.value, best.value) THEN [best EXCEPT !.value = value.value] ELSE best)
       ELSE (IF RatLess(best.value, value.value) THEN [best EXCEPT !.value = value.value] ELSE best)
  ELSE IF type = "Min"
       THEN (IF value.value < best.value THEN [best EXCEPT !.value = value.value] ELSE best)
       ELSE (IF value.value > best.value THEN [best EXCEPT !.value = value.value] ELSE best)

\* The inner loop: from position j on, every constant is folded into best
\* and deleted from the list.
RECURSIVE MinMaxMerge(_, _, _, _)
MinMaxMerge(type, choices, j, best) ==
  IF j > Len(choices) THEN [choices |-> choices, best |-> best]
  ELSE IF ~isConstant(choices[j]) THEN MinMaxMerge(type, choices, j + 1, best)
  ELSE MinMaxMerge(type, SubSeq(choices, 1, j - 1) \o SubSeq(choices, j + 1, Len(choices)),
                   j, MinMaxBest(type, best, choices[j]))

\* The index of the first constant choice, 0 if there is none.
FirstConstant(choices) ==
  IF \E i \in 1..Len(choices) : isConstant(choices[i])
  THEN CHOOSE i \in 1..Len(choices) :
         isConstant(choices[i]) /\ \A j \in 1..(i - 1) : ~isConstant(choices[j])
  ELSE 0

FxMinMax_Resolve(n, ctx) ==
  IF n.isresolved THEN RR(n, ctx)
  ELSE LET a == MinMaxResolveChoices(n.choices, 1, ctx)
           floatcount == Cardinality({i \in 1..Len(a.choices) :
                                        GetRegType(a.choices[i].ValueType) = REGT_FLOAT})
           intcount == Len(a.choices) - floatcount
           b == IF floatcount # 0 /\ intcount # 0 THEN MinMaxCastChoices(a.choices, 1, a.c)
                ELSE a
           vt == IF floatcount # 0 THEN "TypeFloat64" ELSE "TypeSInt32"
           i == FirstConstant(b.choices)
           m == MinMaxMerge(n.Type, b.choices, i + 1, b.choices[i])
           x == FxConstant(m.best.value, m.best.ValueType)
       IN  IF ~a.ok THEN RR(Null, a.c)
           ELSE IF ~b.ok THEN RR(Null, b.c)
           ELSE IF i = 0
           THEN RR([n EXCEPT !.isresolved = TRUE, !.ValueType = vt, !.choices = b.choices], b.c)
           ELSE IF i = 1 /\ Len(m.choices) = 1 THEN RR(x, b.c)
           ELSE RR([n EXCEPT !.isresolved = TRUE, !.ValueType = vt,
                             !.choices = [m.choices EXCEPT ![i] = x]], b.c)

(***************************************************************************)
(* Assignment and line-special calls.                                      *)
(***************************************************************************)
FxAssign(base, right) ==
  [k |-> "Assign", ValueType |-> "nullptr", isresolved |-> FALSE, Base |-> base,
   Right |-> right, AddressRequested |-> FALSE, AddressWritable |-> FALSE]

FxActionSpecialCall(self, special, args) ==
  [k |-> "ActionSpecialCall", ValueType |-> "nullptr", isresolved |-> FALSE,
   Self |-> self, Special |-> special, ArgList |-> args, EmitTail |-> FALSE]

\* A ReturnProto that never makes a call a tail call.
ReturnProtoWithoutTail(n) ==
  [n |-> n, proto |-> PPrototype(IF n.ValueType # "TypeVoid" THEN <<n.ValueType>> ELSE <<>>)]

\* ReturnProto of the node classes: [n, proto], n being the node after the
\* call, which makes a call a tail call, and proto the return types.
ReturnProto(n) ==
  CASE n.k = "VMFunctionCall" ->
         [n |-> [n EXCEPT !.EmitTail = TRUE], proto |-> PPrototype(n.Function.ReturnTypes)]
    [] n.k = "ActionSpecialCall" ->
         [n |-> [n EXCEPT !.EmitTail = TRUE], proto |-> PPrototype(<<n.ValueType>>)]
    [] OTHER ->
         [n |-> n,
          proto |-> PPrototype(IF n.ValueType # "TypeVoid" THEN <<n.ValueType>> ELSE <<>>)]

\* A RequestAddress that every node refuses.
RequestAddressRefused(n) == [ok |-> FALSE, writable |-> FALSE, n |-> n]

\* A RequestAddress that every node grants for writing.
RequestAddressGranted(n) == [ok |-> TRUE, writable |-> TRUE, n |-> n]

\* RequestAddress of the node classes: [ok, writable, n], n being the node
\* with the request recorded.  Classes that do not override it refuse.
RequestAddress(n) ==
  CASE n.k = "LocalVariable" ->
         [ok |-> TRUE, writable |-> n.Variable.VarFlags # "VARF_ReadOnly",
          n |-> [n EXCEPT !.AddressRequested = TRUE]]
    [] n.k = "ClassMember" ->
         [ok |-> TRUE, writable |-> n.membervar.Flags # "VARF_ReadOnly",
          n |-> [n EXCEPT !.AddressRequested = TRUE]]
    [] n.k \in {"PreIncrDecr", "ArrayElement"} ->
         [ok |-> TRUE, writable |-> n.AddressWritable,
          n |-> [n EXCEPT !.AddressRequested = TRUE]]
    [] n.k = "Assign" ->
         [ok |-> TRUE, writable |-> n.AddressWritable,
          n |-> [n EXCEPT !.AddressRequested = TRUE]]
    [] OTHER -> [ok |-> FALSE, writable |-> FALSE, n |-> n]

\* The cast FxAssign::Resolve puts around a numeric right side of another
\* type than the target's.
AssignCast(vt, right, ctx) ==
  IF vt = "TypeBool" THEN FxBoolCast(right)
  ELSE IF GetRegType(vt) = REGT_INT THEN FxIntCast(right, ctx.FromDecorate)
  ELSE FxFloatCast(right)

FxAssign_Resolve(n, ctx) ==
  IF n.isresolved THEN RR(n, ctx)
  ELSE LET b == Resolve(n.Base, ctx)
           r == Resolve(n.Right, b.c)
           vt == b.n.ValueType
           numeric == IsNumeric(b.n) /\ IsNumeric(r.n)
           cast == IF numeric /\ r.n.ValueType # vt
                   THEN Resolve(AssignCast(vt, r.n, r.c), r.c)
                   ELSE IF ~numeric /\ vt # r.n.ValueType /\ vt = "TypeString"
                           /\ r.n.ValueType \in {"TypeName", "TypeSound"}
                   THEN Resolve(FxStringCast(r.n), r.c)
                   ELSE IF ~numeric /\ vt # r.n.ValueType /\ vt = "TypeName"
                           /\ r.n.ValueType = "TypeString"
                   THEN Resolve(FxNameCast(r.n), r.c)
                   ELSE r
           compatible == \/ numeric
                         \/ vt = r.n.ValueType
                         \/ (GetRegType(vt) = REGT_POINTER /\ r.n.ValueType = "TypeNullPtr")
                         \/ (vt = "TypeString" /\ r.n.ValueType \in {"TypeName", "TypeSound"})
                         \/ (vt = "TypeName" /\ r.n.ValueType = "TypeString")
           a == RequestAddress(b.n)
       IN  IF IsNull(b.n) THEN RR(Null, b.c)
           ELSE IF IsNull(r.n) THEN RR(Null, r.c)
           ELSE IF ~compatible
           THEN RR(Null, Message(r.c, "MSG_ERROR", "Assignment between incompatible types."))
           ELSE IF IsNull(cast.n) THEN RR(Null, cast.c)
           ELSE IF ~a.ok \/ ~a.writable
           THEN RR(Null, Message(cast.c, "MSG_ERROR", "Expression must be a modifiable value"))
           ELSE RR([n EXCEPT !.isresolved = TRUE, !.ValueType = vt, !.Base = a.n,
                             !.Right = cast.n, !.AddressWritable = a.writable], cast.c)

\* The argument loop of FxActionSpecialCall::Resolve from argument i on, for
\* a special with a positive number.  The type of the argument is read
\* whether or not its Resolve failed: a failed argument is a null pointer,
\* and nullread records the read through it.
RECURSIVE SpecialResolveArgs(_, _, _, _)
SpecialResolveArgs(args, i, failed, ctx) ==
  IF i > Len(args) THEN [failed |-> failed, args |-> args, c |-> ctx]
  ELSE LET r == Resolve(args[i], ctx)
           rt == GetRegType(r.n.ValueType)
       IN  IF IsNull(r.n)
           THEN SpecialResolveArgs([args EXCEPT ![i] = Null], i + 1, TRUE,
                                   [r.c EXCEPT !.nullread = TRUE])
           ELSE IF rt = REGT_INT
           THEN SpecialResolveArgs([args EXCEPT ![i] = r.n], i + 1, failed, r.c)
           ELSE IF rt = REGT_FLOAT
           THEN SpecialResolveArgs([args EXCEPT ![i] = FxIntCast(r.n, r.c.FromDecorate)],
                                   i + 1, failed, r.c)
           ELSE SpecialResolveArgs([args EXCEPT ![i] = r.n], i + 1, TRUE,
                  Message(r.c, "MSG_ERROR", "Integer expected for parameter"))

FxActionSpecialCall_Resolve(n, ctx) ==
  IF n.isresolved THEN RR(n, ctx)
  ELSE LET s == Resolve(n.Self, ctx)
           a == SpecialResolveArgs(n.ArgList, 1, FALSE, s.c)
       IN  IF ~IsNull(n.Self) /\ IsNull(s.n) THEN RR(Null, s.c)
           ELSE IF a.failed THEN RR(Null, a.c)
           ELSE RR([n EXCEPT !.isresolved = TRUE, !.Self = s.n, !.ArgList = a.args,
                             !.ValueType = "TypeSInt32"], a.c)

FxPreIncrDecr(base, token) ==
  [k |-> "PreIncrDecr", ValueType |-> "nullptr", isresolved |-> FALSE, Token |-> token,
   Base |-> base, AddressRequested |-> FALSE, AddressWritable |-> FALSE]

FxPostIncrDecr(base, token) ==
  [k |-> "PostIncrDecr", ValueType |-> "nullptr", isresolved |-> FALSE, Token |-> token,
   Base |-> base]

\* FxPreIncrDecr::Resolve and FxPostIncrDecr::Resolve, which are the same
\* but for where the base's answer is kept.
IncrDecrResolve(n, ctx) ==
  IF n.isresolved THEN RR(n, ctx)
  ELSE LET b == Resolve(n.Base, ctx)
           a == RequestAddress(b.n)
           this == [n EXCEPT !.isresolved = TRUE, !.Base = a.n, !.ValueType = b.n.ValueType]
       IN  IF IsNull(b.n) THEN RR(Null, b.c)
           ELSE IF ~IsNumeric(b.n)
           THEN RR(Null, Message(b.c, "MSG_ERROR", "Numeric type expected"))
           ELSE IF b.n.ValueType = "TypeBool"
           THEN RR(Null, Message(b.c, "MSG_ERROR", "is not allowed on type bool"))
           ELSE IF ~a.ok \/ ~a.writable
           THEN RR(Null, Message(b.c, "MSG_ERROR", "Expression must be a modifiable value"))
           ELSE IF n.k = "PreIncrDecr"
           THEN RR([this EXCEPT !.AddressWritable = a.writable], b.c)
           ELSE RR(this, b.c)

FxPreIncrDecr_Resolve(n, ctx) == IncrDecrResolve(n, ctx)

FxPostIncrDecr_Resolve(n, ctx) == IncrDecrResolve(n, ctx)

FxArrayElement(base, index) ==
  [k |-> "ArrayElement", ValueType |-> "nullptr", isresolved |-> FALSE, Array |-> base,
   index |-> index, AddressRequested |-> FALSE, AddressWritable |-> FALSE]

FxArrayElement_Resolve(n, ctx) ==
  IF n.isresolved THEN RR(n, ctx)
  ELSE LET arr == Resolve(n.Array, ctx)
           i == Resolve(n.index, arr.c)
           float == GetRegType(i.n.ValueType) = REGT_FLOAT
           index == IF float THEN Resolve(FxIntCast(i.n, ctx.FromDecorate), i.c) ELSE i
           arraytype == PArray(arr.n.ValueType)
           a == RequestAddress(arr.n)
       IN  IF IsNull(arr.n) THEN RR(Null, arr.c)
           ELSE IF IsNull(i.n) THEN RR(Null, i.c)
           ELSE IF IsNull(index.n) THEN RR(Null, index.c)
           ELSE IF GetRegType(index.n.ValueType) # REGT_INT /\ index.n.ValueType # "TypeName"
           THEN RR(Null, Message(index.c, "MSG_ERROR", "Array index must be integer"))
           ELSE IF IsNull(arraytype)
           THEN RR(Null, Message(index.c, "MSG_ERROR", "'[]' can only be used with arrays."))
           ELSE IF isConstant(index.n) /\ GetInt(index.n) >= arraytype.ElementCount
           THEN RR(Null, Message(index.c, "MSG_ERROR", "Array index out of bounds"))
           ELSE IF GetRegType(arraytype.ElementType) \notin {REGT_INT, REGT_FLOAT}
           THEN RR(Null, Message(index.c, "MSG_ERROR", "Only numeric arrays are supported."))
           ELSE IF ~a.ok
           THEN RR(Null, Message(index.c, "MSG_ERROR", "Unable to dereference array."))
           ELSE RR([n EXCEPT !.isresolved = TRUE, !.Array = a.n, !.index = index.n,
                             !.ValueType = arraytype.ElementType,
                             !.AddressWritable = a.writable], index.c)

(***************************************************************************)
(* Function calls.                                                         *)
(***************************************************************************)
\* The functions of the class of self: a method with an int argument that
\* returns an int, an action function with an int argument that returns
\* nothing, and a static function of an int and a float that returns a float.
ClassFunctions ==
  << PFunction("GetHealth", {"VARF_Method"}, <<"TypeActor", "TypeSInt32">>, <<"TypeSInt32">>),
     PFunction("A_Act", {"VARF_Method", "VARF_Action"},
               <<"TypeActor", "TypeActor", "TypeState", "TypeSInt32">>, <<>>),
     PFunction("Scale", {"VARF_Static"}, <<"TypeSInt32", "TypeFloat64">>, <<"TypeFloat64">>) >>

\* FindClassMemberFunction: the function record, or Null.
FindClassMemberFunction(name) ==
  IF \E i \in 1..Len(ClassFunctions) : ClassFunctions[i].SymbolName = name
  THEN ClassFunctions[CHOOSE i \in 1..Len(ClassFunctions) : ClassFunctions[i].SymbolName = name]
  ELSE Null

\* The names of FxFlops that the programs use.
FxFlops == <<"sqrt">>

\* P_FindLineSpecial: number, least and greatest number of arguments of the
\* line special of that name, number 0 if there is none.
P_FindLineSpecial(name) ==
  IF name = "Teleport" THEN [special |-> 70, min |-> 1, max |-> 2]
  ELSE [special |-> 0, min |-> 0, max |-> 0]

\* uninit is what the NoWarn member of the casts that FxVMFunctionCall makes
\* for the arguments holds: their constructor never sets it.
\* beyond is what a read past the end of the callee's ArgumentTypes yields: a
\* type, or a value that is none.
FxFunctionCall(methodname, args, uninit, beyond) ==
  [k |-> "FunctionCall", ValueType |-> "nullptr", isresolved |-> FALSE,
   MethodName |-> methodname, ArgList |-> args, uninit |-> uninit, beyond |-> beyond]

FxVMFunctionCall(self, func, args, uninit, beyond) ==
  [k |-> "VMFunctionCall", ValueType |-> "nullptr", isresolved |-> FALSE,
   Self |-> self, Function |-> func, ArgList |-> args, EmitTail |-> FALSE,
   uninit |-> uninit, beyond |-> beyond]

FxFlopFunctionCall(index, args) ==
  [k |-> "FlopFunctionCall", ValueType |-> "nullptr", isresolved |-> FALSE,
   Index |-> index, ArgList |-> args]

\* CheckArgSize; max < 0 stands for no upper limit.  The message for too
\* many arguments prints min as the number expected.
CheckArgSize(fname, args, min, max, ctx) ==
  LET size == Len(args)
  IN  IF size < min
      THEN [ok |-> FALSE,
            c |-> MessageCounts(ctx, "MSG_ERROR", "Insufficient arguments in call", min, size)]
      ELSE IF size > max /\ max >= 0
      THEN [ok |-> FALSE,
            c |-> MessageCounts(ctx, "MSG_ERROR", "Too many arguments in call", min, size)]
      ELSE [ok |-> TRUE, c |-> ctx]

\* The number of implicit arguments of a function.
Implicit(func) ==
  IF "VARF_Action" \in func.Flags THEN 3
  ELSE IF "VARF_Method" \in func.Flags THEN 1
  ELSE 0

\* The argument loop of FxVMFunctionCall::Resolve from argument i on.  The
\* type of the parameter is read from argtypes whatever its size: overread
\* records a read past its end.
RECURSIVE VMCallResolveArgs(_, _, _, _, _)
VMCallResolveArgs(n, args, i, failed, ctx) ==
  IF i > Len(args) THEN [failed |-> failed, args |-> args, c |-> ctx]
  ELSE LET argtypes == n.Function.ArgumentTypes
           at == i + Implicit(n.Function)
           inside == at <= Len(argtypes)
           type == IF inside THEN argtypes[at] ELSE n.beyond
           x == Resolve(FxTypeCast(args[i], type, FALSE, n.uninit),
                        IF inside THEN ctx ELSE [ctx EXCEPT !.overread = TRUE])
       IN  VMCallResolveArgs(n, [args EXCEPT ![i] = x.n], i + 1, failed \/ IsNull(x.n), x.c)

FxVMFunctionCall_Resolve(n, ctx) ==
  IF n.isresolved THEN RR(n, ctx)
  ELSE LET s == Resolve(n.Self, ctx)
           a == VMCallResolveArgs(n, n.ArgList, 1, FALSE, s.c)
           rets == n.Function.ReturnTypes
       IN  IF ~IsNull(n.Self) /\ IsNull(s.n) THEN RR(Null, s.c)
           ELSE IF IsNull(s.n) /\ "VARF_Static" \notin n.Function.Flags
           THEN RR(Null, Message(s.c, "MSG_ERROR",
                                 "Call to non-static function without a self pointer"))
           ELSE IF a.failed THEN RR(Null, a.c)
           ELSE RR([n EXCEPT !.isresolved = TRUE, !.Self = s.n, !.ArgList = a.args,
                             !.ValueType = IF Len(rets) > 0 THEN rets[1] ELSE "TypeVoid"],
                   a.c)

\* FxFlops[Index].Evaluate for sqrt, on the squares that the programs use.
FlopEvaluate(v) == IF v = FromInt(4) THEN FromInt(2) ELSE v

FxFlopFunctionCall_Resolve(n, ctx) ==
  IF n.isresolved THEN RR(n, ctx)
  ELSE LET r == Resolve(n.ArgList[1], ctx)
           arg == r.n
       IN  IF Len(n.ArgList) # 1
           THEN RR(Null, Message(ctx, "MSG_ERROR", "only has one parameter"))
           ELSE IF IsNull(arg) THEN RR(Null, r.c)
           ELSE IF ~IsNumeric(arg)
           THEN RR(Null, Message(r.c, "MSG_ERROR", "numeric value expected for parameter"))
           ELSE IF isConstant(arg) THEN RR(FxConstantFloat(FlopEvaluate(GetFloat(arg))), r.c)
           ELSE RR([n EXCEPT !.isresolved = TRUE, !.ValueType = "TypeFloat64",
                             !.ArgList = IF GetRegType(arg.ValueType) = REGT_INT
                                         THEN <<FxFloatCast(arg)>> ELSE <<arg>>], r.c)

\* The built-in functions of FxFunctionCall::Resolve that the programs use.
Builtin(n, ctx) ==
  LET minmax == CheckArgSize(n.MethodName, n.ArgList, 2, 0 - 1, ctx)
      abs == CheckArgSize(n.MethodName, n.ArgList, 1, 1, ctx)
      clamp == CheckArgSize(n.MethodName, n.ArgList, 3, 3, ctx)
      pass == <<FxMinMax(<<n.ArgList[1], n.ArgList[2]>>, "Max"), n.ArgList[3]>>
  IN  CASE n.MethodName \in {"min", "max"} ->
             IF minmax.ok
             THEN RR(FxMinMax(n.ArgList, IF n.MethodName = "min" THEN "Min" ELSE "Max"), ctx)
             ELSE RR(Null, minmax.c)
        [] n.MethodName = "clamp" ->
             IF clamp.ok THEN RR(FxMinMax(n.ArgList, "Min"), ctx) ELSE RR(Null, clamp.c)
        [] n.MethodName = "abs" ->
             IF abs.ok THEN RR(FxAbs(n.ArgList[1]), ctx) ELSE RR(Null, abs.c)
        [] OTHER -> RR(Null, ctx)

FxFunctionCall_Resolve(n, ctx) ==
  LET afd == FindClassMemberFunction(n.MethodName)
      static == ~IsNull(afd) /\ "VARF_Static" \in afd.Flags
      line == P_FindLineSpecial(n.MethodName)
      paramcount == Len(n.ArgList)
      func == Builtin(n, ctx)
  IN  IF ~IsNull(afd)
      THEN IF "VARF_Static" \in ctx.Function.Flags /\ ~static
           THEN RR(Null, Message(ctx, "MSG_ERROR", "Call to non-static function from a static context"))
           ELSE Resolve(FxVMFunctionCall(IF static THEN Null ELSE FxSelf, afd, n.ArgList,
                                         n.uninit, n.beyond), ctx)
      ELSE IF n.MethodName \in {FxFlops[i] : i \in 1..Len(FxFlops)}
      THEN Resolve(FxFlopFunctionCall(1, n.ArgList), ctx)
      ELSE IF line.special # 0 /\ line.min >= 0
      THEN IF paramcount < line.min
           THEN RR(Null, MessageCounts(ctx, "MSG_ERROR", "Not enough parameters", line.min, paramcount))
           ELSE IF paramcount > line.max
           THEN RR(Null, MessageCounts(ctx, "MSG_ERROR", "too many parameters", line.max, paramcount))
           ELSE Resolve(FxActionSpecialCall(IF "VARF_Method" \in ctx.Function.Flags
                                            THEN FxSelf ELSE Null,
                                            line.special, n.ArgList), ctx)
      ELSE IF ~IsNull(func.n) THEN Resolve(func.n, func.c)
      ELSE IF func.c # ctx THEN RR(Null, func.c)
      ELSE RR(Null, Message(ctx, "MSG_ERROR", "Call to unknown function"))

(***************************************************************************)
(* Statements.                                                             *)
(***************************************************************************)
FxNop == [k |-> "Nop", ValueType |-> "nullptr", isresolved |-> FALSE]

FxCompoundStatement(exprs) ==
  [k |-> "CompoundStatement", ValueType |-> "nullptr", isresolved |-> FALSE,
   Expressions |-> exprs, LocalVars |-> <<>>]

FxIfStatement(cond, true_part, false_part) ==
  [k |-> "IfStatement", ValueType |-> "nullptr", isresolved |-> FALSE,
   Condition |-> cond, WhenTrue |-> true_part, WhenFalse |-> false_part]

\* A loop carries an id, which stands for its address in ctx.Loop.
FxWhileLoop(id, condition, code) ==
  [k |-> "WhileLoop", ValueType |-> "TypeVoid", isresolved |-> FALSE, id |-> id,
   Condition |-> condition, Code |-> code, Jumps |-> <<>>]

FxJumpStatement(id, token) ==
  [k |-> "JumpStatement", ValueType |-> "TypeVoid", isresolved |-> FALSE, id |-> id,
   Token |-> token]

\* The declaration wraps its initial value in a generic cast to the
\* variable's type, asking for warnings (nowarn = false).
FxLocalVariableDeclaration(type, name, initval, varflags, garbage) ==
  [k |-> "LocalVariableDeclaration", ValueType |-> type, isresolved |-> FALSE,
   id |-> name, Name |-> name, VarFlags |-> varflags,
   Init |-> IF IsNull(initval) THEN Null ELSE FxTypeCast(initval, type, FALSE, garbage)]

\* The loop of FxSequence::Resolve from expression i on.
RECURSIVE SequenceResolve(_, _, _)
SequenceResolve(exprs, i, ctx) ==
  IF i > Len(exprs) THEN [ok |-> TRUE, exprs |-> exprs, c |-> ctx]
  ELSE LET r == Resolve(exprs[i], ctx)
       IN  IF IsNull(r.n) THEN [ok |-> FALSE, exprs |-> <<>>, c |-> r.c]
           ELSE SequenceResolve([exprs EXCEPT ![i] = r.n], i + 1, r.c)

\* FxCompoundStatement::Resolve around FxSequence::Resolve: the block is
\* opened with no variables, and closed whatever the outcome.
FxCompoundStatement_Resolve(n, ctx) ==
  LET inner == [ctx EXCEPT !.Block = Append(@, <<>>)]
      r == IF n.isresolved THEN [ok |-> TRUE, exprs |-> n.Expressions, c |-> inner]
           ELSE SequenceResolve(n.Expressions, 1, inner)
      vars == r.c.Block[Len(r.c.Block)]
      outer == [r.c EXCEPT !.Block = ctx.Block]
  IN  IF ~r.ok THEN RR(Null, outer)
      ELSE RR([n EXCEPT !.isresolved = TRUE, !.Expressions = r.exprs,
                        !.LocalVars = n.LocalVars \o vars], outer)

FxIfStatement_Resolve(n, ctx) ==
  IF n.isresolved THEN RR(n, ctx)
  ELSE LET c == Resolve(n.Condition, ctx)
           cb == IF c.n.ValueType # "TypeBool" THEN Resolve(FxBoolCast(c.n), c.c) ELSE c
           t == Resolve(n.WhenTrue, cb.c)
           f == Resolve(n.WhenFalse, t.c)
           e == IF GetBool(cb.n) THEN t.n ELSE f.n
       IN  IF IsNull(n.WhenTrue) /\ IsNull(n.WhenFalse) THEN RR(Null, ctx)
           ELSE IF IsNull(c.n) THEN RR(Null, c.c)
           ELSE IF IsNull(cb.n) THEN RR(Null, cb.c)
           ELSE IF ~IsNull(n.WhenTrue) /\ IsNull(t.n) THEN RR(Null, t.c)
           ELSE IF ~IsNull(n.WhenFalse) /\ IsNull(f.n) THEN RR(Null, f.c)
           ELSE IF isConstant(cb.n) THEN RR(IF IsNull(e) THEN FxNop ELSE e, f.c)
           ELSE RR([n EXCEPT !.isresolved = TRUE, !.ValueType = "TypeVoid",
                             !.Condition = cb.n, !.WhenTrue = t.n, !.WhenFalse = f.n], f.c)

\* A faulty variant of FxWhileLoop::DoResolve, which keeps a loop whose
\* condition is the constant false; C21 must tell it from the real one.
WhileLoopKept(n, ctx) ==
  IF n.isresolved THEN RR(n, ctx)
  ELSE LET c == Resolve(n.Condition, ctx)
           code == Resolve(n.Code, c.c)
           cb == IF c.n.ValueType # "TypeBool" THEN Resolve(FxBoolCast(c.n), code.c)
                 ELSE RR(c.n, code.c)
       IN  IF IsNull(c.n) THEN RR(Null, c.c)
           ELSE IF ~IsNull(n.Code) /\ IsNull(code.n) THEN RR(Null, code.c)
           ELSE IF IsNull(cb.n) THEN RR(Null, cb.c)
           ELSE RR([n EXCEPT !.isresolved = TRUE, !.Condition = cb.n, !.Code = code.n], cb.c)

FxWhileLoop_DoResolve(n, ctx) ==
  IF n.isresolved THEN RR(n, ctx)
  ELSE LET c == Resolve(n.Condition, ctx)
           code == Resolve(n.Code, c.c)
           cb == IF c.n.ValueType # "TypeBool" THEN Resolve(FxBoolCast(c.n), code.c)
                 ELSE RR(c.n, code.c)
           this == [n EXCEPT !.isresolved = TRUE, !.Condition = cb.n, !.Code = code.n]
       IN  IF IsNull(c.n) THEN RR(Null, c.c)
           ELSE IF ~IsNull(n.Code) /\ IsNull(code.n) THEN RR(Null, code.c)
           ELSE IF IsNull(cb.n) THEN RR(Null, cb.c)
           ELSE IF isConstant(cb.n) /\ ~GetBool(cb.n) THEN RR(FxNop, cb.c)
           ELSE IF isConstant(cb.n) /\ IsNull(code.n)
           THEN RR(this, Message(cb.c, "MSG_WARNING", "Infinite empty loop"))
           ELSE RR(this, cb.c)

FxDoWhileLoop(id, condition, code) ==
  [k |-> "DoWhileLoop", ValueType |-> "TypeVoid", isresolved |-> FALSE, id |-> id,
   Condition |-> condition, Code |-> code, Jumps |-> <<>>]

\* A loop whose condition is the constant false and whose body has pushed
\* no jump onto it is replaced by its body.
FxDoWhileLoop_DoResolve(n, ctx) ==
  IF n.isresolved THEN RR(n, ctx)
  ELSE LET c == Resolve(n.Condition, ctx)
           code == Resolve(n.Code, c.c)
           cb == IF c.n.ValueType # "TypeBool" THEN Resolve(FxBoolCast(c.n), code.c)
                 ELSE RR(c.n, code.c)
           this == [n EXCEPT !.isresolved = TRUE, !.Condition = cb.n, !.Code = code.n]
       IN  IF IsNull(c.n) THEN RR(Null, c.c)
           ELSE IF ~IsNull(n.Code) /\ IsNull(code.n) THEN RR(Null, code.c)
           ELSE IF IsNull(cb.n) THEN RR(Null, cb.c)
           ELSE IF isConstant(cb.n) /\ ~GetBool(cb.n)
                   /\ SelectSeq(cb.c.Jumps, LAMBDA j : j.loop = n.id) = <<>>
           THEN RR(IF IsNull(code.n) THEN FxNop ELSE code.n, cb.c)
           ELSE IF isConstant(cb.n) /\ GetBool(cb.n) /\ IsNull(code.n)
           THEN RR(this, Message(cb.c, "MSG_WARNING", "Infinite empty loop"))
           ELSE RR(this, cb.c)

FxForLoop(id, init, condition, iteration, code) ==
  [k |-> "ForLoop", ValueType |-> "TypeVoid", isresolved |-> FALSE, id |-> id,
   Init |-> init, Condition |-> condition, Iteration |-> iteration, Code |-> code,
   Jumps |-> <<>>]

\* A condition that is the constant true is deleted.
FxForLoop_DoResolve(n, ctx) ==
  IF n.isresolved THEN RR(n, ctx)
  ELSE LET init == Resolve(n.Init, ctx)
           c == Resolve(n.Condition, init.c)
           iter == Resolve(n.Iteration, c.c)
           code == Resolve(n.Code, iter.c)
           cb == IF ~IsNull(c.n) /\ c.n.ValueType # "TypeBool"
                 THEN Resolve(FxBoolCast(c.n), code.c)
                 ELSE RR(c.n, code.c)
           condition == IF ~IsNull(cb.n) /\ isConstant(cb.n) THEN Null ELSE cb.n
           this == [n EXCEPT !.isresolved = TRUE, !.Init = init.n, !.Condition = condition,
                             !.Iteration = iter.n, !.Code = code.n]
       IN  IF ~IsNull(n.Init) /\ IsNull(init.n) THEN RR(Null, init.c)
           ELSE IF ~IsNull(n.Condition) /\ IsNull(c.n) THEN RR(Null, c.c)
           ELSE IF ~IsNull(n.Iteration) /\ IsNull(iter.n) THEN RR(Null, iter.c)
           ELSE IF ~IsNull(n.Code) /\ IsNull(code.n) THEN RR(Null, code.c)
           ELSE IF ~IsNull(c.n) /\ IsNull(cb.n) THEN RR(Null, cb.c)
           ELSE IF ~IsNull(cb.n) /\ isConstant(cb.n) /\ ~GetBool(cb.n) THEN RR(FxNop, cb.c)
           ELSE IF IsNull(condition) /\ IsNull(code.n)
           THEN RR(this, Message(cb.c, "MSG_WARNING", "Infinite empty loop"))
           ELSE RR(this, cb.c)

\* DoResolve of the loop's class.
DoResolve(n, ctx) ==
  CASE n.k = "ForLoop" -> FxForLoop_DoResolve(n, ctx)
    [] n.k = "DoWhileLoop" -> FxDoWhileLoop_DoResolve(n, ctx)
    [] OTHER -> FxWhileLoop_DoResolve(n, ctx)

\* The jumps recorded on a loop, in the order they were pushed.
JumpsOf(ctx, loop) == SelectSeq(ctx.Jumps, LAMBDA j : j.loop = loop)

\* A faulty variant of FxLoopStatement::Resolve, which leaves the loop
\* current when it is done; C6 must tell it from the real one.
LoopWithoutRestore(n, ctx) ==
  LET x == DoResolve(n, [ctx EXCEPT !.Loop = n.id])
  IN  RR(IF x.n.k = n.k THEN [x.n EXCEPT !.Jumps = JumpsOf(x.c, n.id)] ELSE x.n,
         [x.c EXCEPT !.exits = Append(@, [loop |-> n.id, current |-> x.c.Loop,
                                          failed |-> IsNull(x.n)])])

\* FxLoopStatement::Resolve: the loop becomes the current one while it
\* resolves, and the loop saved on entry is current again afterwards.  The
\* node returned holds the Jumps pushed on it; exits logs, for every loop
\* left, the loop that is current from then on.
FxLoopStatement_Resolve(n, ctx) ==
  LET outer == ctx.Loop
      x == DoResolve(n, [ctx EXCEPT !.Loop = n.id])
      after == [x.c EXCEPT !.Loop = outer]
  IN  RR(IF x.n.k = n.k THEN [x.n EXCEPT !.Jumps = JumpsOf(x.c, n.id)] ELSE x.n,
         [after EXCEPT !.exits = Append(@, [loop |-> n.id, current |-> after.Loop,
                                            failed |-> IsNull(x.n)])])

\* A faulty variant of FxJumpStatement::Resolve, without the test for a
\* node that has resolved before; C11 must tell it from the real one.
JumpWithoutResolvedTest(n, ctx) ==
  IF ctx.Loop # 0
  THEN RR([n EXCEPT !.isresolved = TRUE],
          [ctx EXCEPT !.Jumps = Append(@, [loop |-> ctx.Loop, jump |-> n.id,
                                          Token |-> n.Token])])
  ELSE RR(Null, Message(ctx, "MSG_ERROR", "outside of a loop"))

\* A faulty variant of FxJumpStatement::Resolve, without the test for an
\* enclosing loop; C5 must tell it from the real one.
JumpWithoutLoopTest(n, ctx) ==
  IF n.isresolved THEN RR(n, ctx)
  ELSE RR([n EXCEPT !.isresolved = TRUE],
          [ctx EXCEPT !.Jumps = Append(@, [loop |-> ctx.Loop, jump |-> n.id,
                                          Token |-> n.Token])])

FxJumpStatement_Resolve(n, ctx) ==
  IF n.isresolved THEN RR(n, ctx)
  ELSE IF ctx.Loop # 0
  THEN RR([n EXCEPT !.isresolved = TRUE],
          [ctx EXCEPT !.Jumps = Append(@, [loop |-> ctx.Loop, jump |-> n.id,
                                          Token |-> n.Token])])
  ELSE RR(Null, Message(ctx, "MSG_ERROR", "outside of a loop"))

FxReturnStatement(value) ==
  [k |-> "ReturnStatement", ValueType |-> "TypeVoid", isresolved |-> FALSE, Value |-> value]

FxReturnStatement_Resolve(n, ctx) ==
  IF n.isresolved THEN RR(n, ctx)
  ELSE LET r == Resolve(n.Value, ctx)
           ret == ReturnProto(r.n)
       IN  IF IsNull(n.Value)
           THEN RR([n EXCEPT !.isresolved = TRUE], CheckReturn(ctx, PPrototype(<<>>)))
           ELSE IF IsNull(r.n) THEN RR(Null, r.c)
           ELSE RR([n EXCEPT !.isresolved = TRUE, !.Value = ret.n], CheckReturn(r.c, ret.proto))

\* What a block and a local variable expression keep of a declaration.
Declared(n) ==
  [k |-> "Decl", id |-> n.id, Name |-> n.Name, ValueType |-> n.ValueType,
   VarFlags |-> n.VarFlags]

FxLocalVariableDeclaration_Resolve(n, ctx) ==
  IF n.isresolved THEN RR(n, ctx)
  ELSE LET r == Resolve(n.Init, ctx)
       IN  IF ~IsNull(n.Init) /\ IsNull(r.n) THEN RR(Null, r.c)
           ELSE IF r.c.Block = <<>>
           THEN RR(Null, Message(r.c, "MSG_ERROR",
                                 "Variable declaration outside compound statement"))
           ELSE RR([n EXCEPT !.isresolved = TRUE, !.Init = r.n],
                   [r.c EXCEPT !.Block[Len(r.c.Block)] = Append(@, Declared(n))])

\* Resolve of a node, by its class; the RESOLVE macros skip a null pointer.
Resolve(n, ctx) ==
  CASE n.k = "Null" -> RR(Null, ctx)
    [] n.k \in {"Constant", "Nop"} -> FxExpression_Resolve(n, ctx)
    [] n.k = "Identifier" -> FxIdentifier_Resolve(n, ctx)
    [] n.k = "LocalVariable" -> FxLocalVariable_Resolve(n, ctx)
    [] n.k = "Self" -> FxSelf_Resolve(n, ctx)
    [] n.k = "ClassMember" -> FxClassMember_Resolve(n, ctx)
    [] n.k = "BoolCast" -> FxBoolCast_Resolve(n, ctx)
    [] n.k = "IntCast" -> FxIntCast_Resolve(n, ctx)
    [] n.k = "FloatCast" -> FxFloatCast_Resolve(n, ctx)
    [] n.k = "NameCast" -> FxNameCast_Resolve(n, ctx)
    [] n.k = "StringCast" -> FxStringCast_Resolve(n, ctx)
    [] n.k = "TypeCast" -> FxTypeCast_Resolve(n, ctx)
    [] n.k = "AddSub" -> FxAddSub_Resolve(n, ctx)
    [] n.k = "MulDiv" -> FxMulDiv_Resolve(n, ctx)
    [] n.k = "CompareRel" -> FxCompareRel_Resolve(n, ctx)
    [] n.k = "CompareEq" -> FxCompareEq_Resolve(n, ctx)
    [] n.k = "LtGtEq" -> FxLtGtEq_Resolve(n, ctx)
    [] n.k = "BinaryLogical" -> FxBinaryLogical_Resolve(n, ctx)
    [] n.k = "Conditional" -> FxConditional_Resolve(n, ctx)
    [] n.k = "Abs" -> FxAbs_Resolve(n, ctx)
    [] n.k = "MinusSign" -> FxMinusSign_Resolve(n, ctx)
    [] n.k = "MinMax" -> FxMinMax_Resolve(n, ctx)
    [] n.k = "Assign" -> FxAssign_Resolve(n, ctx)
    [] n.k = "ActionSpecialCall" -> FxActionSpecialCall_Resolve(n, ctx)
    [] n.k = "ReturnStatement" -> FxReturnStatement_Resolve(n, ctx)
    [] n.k = "PreIncrDecr" -> FxPreIncrDecr_Resolve(n, ctx)
    [] n.k = "PostIncrDecr" -> FxPostIncrDecr_Resolve(n, ctx)
    [] n.k = "ArrayElement" -> FxArrayElement_Resolve(n, ctx)
    [] n.k = "FunctionCall" -> FxFunctionCall_Resolve(n, ctx)
    [] n.k = "VMFunctionCall" -> FxVMFunctionCall_Resolve(n, ctx)
    [] n.k = "FlopFunctionCall" -> FxFlopFunctionCall_Resolve(n, ctx)
    [] n.k = "CompoundStatement" -> FxCompoundStatement_Resolve(n, ctx)
    [] n.k = "IfStatement" -> FxIfStatement_Resolve(n, ctx)
    [] n.k \in {"WhileLoop", "DoWhileLoop", "ForLoop"} -> FxLoopStatement_Resolve(n, ctx)
    [] n.k = "JumpStatement" -> FxJumpStatement_Resolve(n, ctx)
    [] n.k = "LocalVariableDeclaration" -> FxLocalVariableDeclaration_Resolve(n, ctx)

(***************************************************************************)
(* The function builder: the code emitted, the registers in use of every   *)
(* class, the constant tables, and what Emit stores in the nodes (the      *)
(* register of a declaration, the address of a jump).  acquired, released  *)
(* and doublefree count the calls of the register allocator.               *)
(***************************************************************************)
\* The builder when emission starts: self and the two arguments hold
\* register 0 of their classes, and the two other implicit arguments of an
\* action function pointer registers 1 and 2.
Reserved(action) ==
  [t \in RegClasses |->
     IF t = REGT_STRING THEN {}
     ELSE IF t = REGT_POINTER /\ action THEN {0, 1, 2} ELSE {0}]

VMFunctionBuilder(action) ==
  [code |-> <<>>, Registers |-> Reserved(action), IsActionFunc |-> action,
   IntConstants |-> <<>>, FloatConstants |-> <<>>, AddressConstants |-> <<>>,
   RegNum |-> [id \in {"i", "f"} |-> 0], Address |-> <<>>,
   acquired |-> [t \in RegClasses |-> 0], released |-> [t \in RegClasses |-> 0],
   doublefree |-> 0, badpatch |-> FALSE, msgs |-> <<>>]

\* RegAvailability::Get(1): the lowest free register of the class.
Get(b, type) ==
  LET reg == CHOOSE r \in 0..Cardinality(b.Registers[type]) :
               /\ r \notin b.Registers[type]
               /\ \A q \in 0..(r - 1) : q \in b.Registers[type]
  IN  [b |-> [b EXCEPT !.Registers[type] = @ \cup {reg}, !.acquired[type] = @ + 1],
       reg |-> reg]

\* RegAvailability::Return(reg, 1): the register is free afterwards.
Return(b, type, reg) ==
  [b EXCEPT !.Registers[type] = @ \ {reg}, !.released[type] = @ + 1,
            !.doublefree = IF reg \in b.Registers[type] THEN @ ELSE @ + 1]

\* VMFunctionBuilder::Emit: the instruction is appended; its address is the
\* number of instructions before it.
Instr(op, mode, a, bb, c) == [op |-> op, mode |-> mode, a |-> a, b |-> bb, c |-> c]

EmitOp(b, op, mode, a, bb, c) == [b EXCEPT !.code = Append(@, Instr(op, mode, a, bb, c))]

GetAddress(b) == Len(b.code)

\* Backpatch(loc, target): the jump at loc gets the distance to target.
Backpatch(b, loc, target) == [b EXCEPT !.code[loc + 1].a = target - loc - 1]

BackpatchToHere(b, loc) == Backpatch(b, loc, GetAddress(b))

\* The index of a constant in its table, and the table with it.
ConstantIndex(table, v) ==
  IF \E i \in 1..Len(table) : table[i] = v
  THEN (CHOOSE i \in 1..Len(table) : table[i] = v) - 1
  ELSE Len(table)

ConstantTable(table, v) ==
  IF \E i \in 1..Len(table) : table[i] = v THEN table ELSE Append(table, v)

GetConstantInt(b, v) ==
  [b |-> [b EXCEPT !.IntConstants = ConstantTable(@, v)],
   reg |-> ConstantIndex(b.IntConstants, v)]

GetConstantFloat(b, v) ==
  [b |-> [b EXCEPT !.FloatConstants = ConstantTable(@, v)],
   reg |-> ConstantIndex(b.FloatConstants, v)]

GetConstantAddress(b, v) ==
  [b |-> [b EXCEPT !.AddressConstants = ConstantTable(@, v)],
   reg |-> ConstantIndex(b.AddressConstants, v)]

\* EmitLoadInt and EmitParamInt for values that fit the immediate operand.
EmitLoadInt(b, reg, v) == EmitOp(b, "LI", "", reg, v, 0)

EmitParamInt(b, v) == EmitOp(b, "PARAMI", "", v, 0, 0)

(***************************************************************************)
(* ExpEmit, the location of a value.                                       *)
(***************************************************************************)
\* ExpEmit(): no location.
ExpEmitNone ==
  [RegNum |-> 0, RegType |-> REGT_NIL, Konst |-> FALSE, Fixed |-> FALSE,
   Final |-> FALSE, Target |-> FALSE]

\* ExpEmit(reg, type, konst, fixed)
ExpEmitAt(reg, type, konst, fixed) ==
  [RegNum |-> reg, RegType |-> type, Konst |-> konst, Fixed |-> fixed,
   Final |-> FALSE, Target |-> FALSE]

ER(b, e) == [b |-> b, e |-> e]

\* ExpEmit(build, type): a register acquired from the allocator.
ExpEmitNew(b, type) ==
  LET g == Get(b, type) IN ER(g.b, ExpEmitAt(g.reg, type, FALSE, FALSE))

\* ExpEmit::Free
Free(b, e) ==
  IF ~e.Fixed /\ ~e.Konst /\ e.RegType <= REGT_TYPE
  THEN Return(b, e.RegType, e.RegNum)
  ELSE b

(***************************************************************************)
(* Emit.  Every operator below is the Emit method of one class; it yields  *)
(* ER(build, location): the builder after the call and the ExpEmit         *)
(* returned.                                                               *)
(***************************************************************************)
RECURSIVE Emit(_, _)

\* The names of the program, a name constant being the index of its name.
Names == <<"none", "spawn", "melee">>

NameIndex(name) == (CHOOSE i \in 1..Len(Names) : Names[i] = name) - 1

\* PType::GetLoadOp, GetStoreOp and GetMoveOp.
GetLoadOp(t) ==
  CASE GetRegType(t) = REGT_FLOAT -> "LDP"
    [] GetRegType(t) = REGT_POINTER -> "LP"
    [] OTHER -> "LW"

GetStoreOp(t) == IF GetRegType(t) = REGT_FLOAT THEN "SDP" ELSE "SW"

GetMoveOp(t) == IF GetRegType(t) = REGT_FLOAT THEN "MOVEF" ELSE "MOVE"

FxConstant_Emit(n, b) ==
  LET regtype == GetRegType(n.ValueType)
      k == CASE n.ValueType = "TypeName" -> GetConstantInt(b, NameIndex(n.value))
             [] regtype = REGT_INT /\ n.ValueType # "TypeName" -> GetConstantInt(b, n.value)
             [] regtype = REGT_FLOAT -> GetConstantFloat(b, n.value)
             [] OTHER -> GetConstantAddress(b, n.value)
  IN  ER(k.b, ExpEmitAt(k.reg, regtype, TRUE, FALSE))

FxLocalVariable_Emit(n, b) ==
  ER(b, [ExpEmitAt(b.RegNum[n.Variable.id], GetRegType(n.Variable.ValueType), FALSE, TRUE)
           EXCEPT !.Target = n.AddressRequested])

FxSelf_Emit(n, b) == ER(b, ExpEmitAt(0, REGT_POINTER, FALSE, TRUE))

\* The object is never a constant here and no field has offset 0.
FxClassMember_Emit(n, b) ==
  LET obj == Emit(n.classx, b)
      k == GetConstantInt(IF n.AddressRequested THEN Free(obj.b, obj.e) ELSE obj.b,
                          n.membervar.Offset)
      out == ExpEmitNew(k.b, REGT_POINTER)
      loc == ExpEmitNew(k.b, GetRegType(n.membervar.Type))
  IN  IF n.AddressRequested
      THEN ER(EmitOp(out.b, "ADDA", "RK", out.e.RegNum, obj.e.RegNum, k.reg), out.e)
      ELSE ER(Free(EmitOp(loc.b, GetLoadOp(n.membervar.Type), "", loc.e.RegNum,
                          obj.e.RegNum, k.reg), obj.e), loc.e)

FxBoolCast_Emit(n, b) ==
  LET from == Emit(n.basex, b)
      to == ExpEmitNew(from.b, REGT_INT)
      b1 == EmitOp(Free(to.b, from.e), "LI", "", to.e.RegNum, 0, 0)
      kf == GetConstantFloat(b1, FromInt(0))
      ka == GetConstantAddress(b1, "nullptr")
      b2 == CASE from.e.RegType = REGT_INT ->
                   EmitOp(b1, "EQ", "R", 1, from.e.RegNum, to.e.RegNum)
              [] from.e.RegType = REGT_FLOAT ->
                   EmitOp(kf.b, "EQF", "K", 1, from.e.RegNum, kf.reg)
              [] from.e.RegType = REGT_POINTER ->
                   EmitOp(ka.b, "EQA", "K", 1, from.e.RegNum, ka.reg)
              [] OTHER -> b1
  IN  ER(EmitOp(EmitOp(b2, "JMP", "", 1, 0, 0), "LI", "", to.e.RegNum, 1, 0), to.e)

\* The casts that free the source and then take a register of the result's
\* class for one CAST instruction.
CastEmit(n, b, regtype, cast) ==
  LET from == Emit(n.basex, b)
      to == ExpEmitNew(Free(from.b, from.e), regtype)
  IN  ER(EmitOp(to.b, "CAST", cast, to.e.RegNum, from.e.RegNum, 0), to.e)

FxIntCast_Emit(n, b) == CastEmit(n, b, REGT_INT, "F2I")

FxFloatCast_Emit(n, b) == CastEmit(n, b, REGT_FLOAT, "I2F")

FxNameCast_Emit(n, b) == CastEmit(n, b, REGT_INT, "S2N")

\* The instruction is chosen by the node's own type, which is string.
FxStringCast_Emit(n, b) ==
  LET from == Emit(n.basex, b)
      to == ExpEmitNew(Free(from.b, from.e), REGT_STRING)
  IN  IF n.ValueType = "TypeName"
      THEN ER(EmitOp(to.b, "CAST", "N2S", to.e.RegNum, from.e.RegNum, 0), to.e)
      ELSE IF n.ValueType = "TypeSound"
      THEN ER(EmitOp(to.b, "CAST", "So2S", to.e.RegNum, from.e.RegNum, 0), to.e)
      ELSE to

\* The operand modes of an instruction with two operands either of which may
\* be a constant.
Mode(op1, op2) == IF op1.Konst THEN "KR" ELSE IF op2.Konst THEN "RK" ELSE "RR"

\* FxAddSub::Emit and FxMulDiv::Emit: for the commutative operator a constant
\* operand goes second; both operands are freed, then the result register is
\* taken.
ArithEmit(n, b, commutative, op) ==
  LET l == Emit(n.left, b)
      r == Emit(n.right, l.b)
      swap == (n.Operator = commutative) /\ l.e.Konst
      op1 == IF swap THEN r.e ELSE l.e
      op2 == IF swap THEN l.e ELSE r.e
      regtype == GetRegType(n.ValueType)
      to == ExpEmitNew(Free(Free(r.b, op1), op2), regtype)
  IN  ER(EmitOp(to.b, op, IF n.Operator = commutative
                          THEN (IF op2.Konst THEN "RK" ELSE "RR") ELSE Mode(op1, op2),
                to.e.RegNum, op1.RegNum, op2.RegNum), to.e)

AddSubOp(n) ==
  IF GetRegType(n.ValueType) = REGT_FLOAT
  THEN (IF n.Operator = "+" THEN "ADDF" ELSE "SUBF")
  ELSE (IF n.Operator = "+" THEN "ADD" ELSE "SUB")

FxAddSub_Emit(n, b) == ArithEmit(n, b, "+", AddSubOp(n))

MulDivOp(n) ==
  IF GetRegType(n.ValueType) = REGT_FLOAT
  THEN (CASE n.Operator = "*" -> "MULF" [] n.Operator = "/" -> "DIVF" [] OTHER -> "MODF")
  ELSE (CASE n.Operator = "*" -> "MUL" [] n.Operator = "/" -> "DIV" [] OTHER -> "MOD")

FxMulDiv_Emit(n, b) == ArithEmit(n, b, "*", MulDivOp(n))

\* InstrMap of FxCompareRel::Emit: the instruction and the value it checks.
CompareRelInstr(o, regtype) ==
  LET f == IF regtype = REGT_INT THEN "" ELSE "F"
  IN  CASE o = "<" -> [op |-> IF f = "" THEN "LT" ELSE "LTF", check |-> 0]
        [] o = ">" -> [op |-> IF f = "" THEN "LE" ELSE "LEF", check |-> 1]
        [] o = ">=" -> [op |-> IF f = "" THEN "LT" ELSE "LTF", check |-> 1]
        [] OTHER -> [op |-> IF f = "" THEN "LE" ELSE "LEF", check |-> 0]

FxCompareRel_Emit(n, b) ==
  LET l == Emit(n.left, b)
      r == Emit(n.right, l.b)
      to == ExpEmitNew(r.b, REGT_INT)
      i == CompareRelInstr(n.Operator, l.e.RegType)
      b1 == IF r.e.Konst THEN to.b ELSE Free(to.b, r.e)
      b2 == IF l.e.Konst THEN b1 ELSE Free(b1, l.e)
      b3 == EmitOp(b2, "LI", "", to.e.RegNum, 0, 0)
      b4 == EmitOp(b3, i.op, Mode(l.e, r.e), i.check, l.e.RegNum, r.e.RegNum)
  IN  ER(EmitOp(EmitOp(b4, "JMP", "", 1, 0, 0), "LI", "", to.e.RegNum, 1, 0), to.e)

\* FxCompareEq::Emit: a constant operand goes second; the result register is
\* taken before the operands are freed.
FxCompareEq_Emit(n, b) ==
  LET l == Emit(n.left, b)
      r == Emit(n.right, l.b)
      op1 == IF l.e.Konst THEN r.e ELSE l.e
      op2 == IF l.e.Konst THEN l.e ELSE r.e
      to == ExpEmitNew(r.b, REGT_INT)
      instr == CASE op1.RegType = REGT_INT -> "EQ"
                 [] op1.RegType = REGT_FLOAT -> "EQF"
                 [] OTHER -> "EQA"
      b1 == Free(to.b, op1)
      b2 == IF op2.Konst THEN b1 ELSE Free(b1, op2)
      b3 == EmitOp(b2, "LI", "", to.e.RegNum, 0, 0)
      b4 == EmitOp(b3, instr, IF op2.Konst THEN "K" ELSE "R",
                   IF n.Operator # "==" THEN 1 ELSE 0, op1.RegNum, op2.RegNum)
  IN  ER(EmitOp(EmitOp(b4, "JMP", "", 1, 0, 0), "LI", "", to.e.RegNum, 1, 0), to.e)

\* FxLtGtEq::Emit: the result register is taken and returned; the locations
\* of the two operands are not freed.
FxLtGtEq_Emit(n, b) ==
  LET l == Emit(n.left, b)
      r == Emit(n.right, l.b)
      to == ExpEmitNew(r.b, REGT_INT)
      f == l.e.RegType # REGT_INT
      b1 == EmitOp(to.b, "LI", "", to.e.RegNum, 1, 0)
      b2 == EmitOp(b1, IF f THEN "LTF" ELSE "LT", Mode(l.e, r.e), 0, l.e.RegNum, r.e.RegNum)
      j1 == GetAddress(b2)
      b3 == EmitOp(b2, "JMP", "", 1, 0, 0)
      b4 == EmitOp(b3, "LI", "", to.e.RegNum, 0 - 1, 0)
      j2 == GetAddress(b4)
      b5 == BackpatchToHere(EmitOp(b4, "JMP", "", 1, 0, 0), j1)
      b6 == EmitOp(b5, IF f THEN "LEF" ELSE "LE", Mode(l.e, r.e), 0, l.e.RegNum, r.e.RegNum)
      j3 == GetAddress(b6)
      b7 == EmitOp(EmitOp(b6, "JMP", "", 1, 0, 0), "LI", "", to.e.RegNum, 0, 0)
  IN  ER(BackpatchToHere(BackpatchToHere(b7, j2), j3), to.e)

FxBinaryLogical_Emit(n, b) ==
  LET and == n.Operator = "&&"
      l == Emit(n.left, b)
      zero == GetConstantInt(l.b, 0)
      b1 == EmitOp(Free(zero.b, l.e), "EQ", "K", IF and THEN 1 ELSE 0, l.e.RegNum, zero.reg)
      patchspot == GetAddress(b1)
      r == Emit(n.right, EmitOp(b1, "JMP", "", 0, 0, 0))
      to == ExpEmitNew(Free(r.b, r.e), REGT_INT)
      b2 == EmitOp(to.b, "EQ", "K", IF and THEN 1 ELSE 0, r.e.RegNum, zero.reg)
      b3 == EmitOp(EmitOp(b2, "JMP", "", 2, 0, 0), "LI", "", to.e.RegNum,
                   IF and THEN 1 ELSE 0, 0)
      b4 == EmitOp(b3, "JMP", "", 1, 0, 0)
      target == GetAddress(b4)
  IN  ER(Backpatch(EmitOp(b4, "LI", "", to.e.RegNum, IF and THEN 0 ELSE 1, 0),
                   patchspot, target), to.e)

\* FxConditional::Emit: the location of the condition is not freed; the
\* register of the true branch is the result and receives the false branch.
FxConditional_Emit(n, b) ==
  LET cond == Emit(n.condition, b)
      zero == GetConstantInt(cond.b, 0)
      b1 == EmitOp(zero.b, "EQ", "K", 1, cond.e.RegNum, zero.reg)
      falsejump == GetAddress(b1)
      b2 == EmitOp(b1, "JMP", "", 0, 0, 0)
      tconst == isConstant(n.truex) /\ GetRegType(n.truex.ValueType) = REGT_INT
      ti == ExpEmitNew(b2, REGT_INT)
      trueop == Emit(n.truex, b2)
      tk == ExpEmitNew(trueop.b, REGT_FLOAT)
      t == IF tconst THEN ER(EmitLoadInt(ti.b, ti.e.RegNum, GetInt(n.truex)), ti.e)
           ELSE IF trueop.e.Konst
           THEN ER(EmitOp(tk.b, "LKF", "", tk.e.RegNum, trueop.e.RegNum, 0), tk.e)
           ELSE trueop
      out == t.e
      truejump == GetAddress(t.b)
      b3 == BackpatchToHere(EmitOp(t.b, "JMP", "", 0, 0, 0), falsejump)
      fconst == isConstant(n.falsex) /\ GetRegType(n.falsex.ValueType) = REGT_INT
      falseop == Emit(n.falsex, b3)
      b4 == IF fconst THEN EmitLoadInt(b3, out.RegNum, GetInt(n.falsex))
            ELSE IF falseop.e.Konst
            THEN EmitOp(falseop.b, "LKF", "", out.RegNum, falseop.e.RegNum, 0)
            ELSE EmitOp(Free(falseop.b, falseop.e),
                        IF falseop.e.RegType = REGT_INT THEN "MOVE" ELSE "MOVEF", "",
                        out.RegNum, falseop.e.RegNum, 0)
  IN  ER(BackpatchToHere(b4, truejump), out)

\* FxAbs::Emit: the location of the operand is not freed.
\* FxMinusSign::Emit: the operand's register is negated in place.
FxMinusSign_Emit(n, b) ==
  LET from == Emit(n.Operand, b)
  IN  IF GetRegType(n.ValueType) = REGT_INT
      THEN ER(EmitOp(from.b, "NEG", "", from.e.RegNum, from.e.RegNum, 0), from.e)
      ELSE ER(EmitOp(from.b, "FLOP", "", from.e.RegNum, from.e.RegNum, "FLOP_NEG"), from.e)

FxAbs_Emit(n, b) ==
  LET absofsteal == Emit(n.val, b)
      out == ExpEmitNew(absofsteal.b, absofsteal.e.RegType)
  IN  IF absofsteal.e.RegType = REGT_INT
      THEN ER(EmitOp(out.b, "ABS", "", out.e.RegNum, absofsteal.e.RegNum, 0), out.e)
      ELSE ER(EmitOp(out.b, "FLOP", "ABS", out.e.RegNum, absofsteal.e.RegNum, 0), out.e)

\* EmitLoad of FxMinMax
EmitLoad(b, resultreg, value) ==
  LET k == GetConstantFloat(b, GetFloat(value))
  IN  IF resultreg.RegType = REGT_FLOAT
      THEN EmitOp(k.b, "LKF", "", resultreg.RegNum, k.reg, 0)
      ELSE EmitLoadInt(b, resultreg.RegNum, GetInt(value))

\* One pass of the loop of FxMinMax::Emit: choice i is compared with the best
\* register and copied to it when it is better.
MinMaxStep(n, i, b, bestreg) ==
  LET float == GetRegType(n.ValueType) = REGT_FLOAT
      opcode == IF n.Type = "Min" THEN (IF float THEN "LEF" ELSE "LE")
                ELSE (IF float THEN "LTF" ELSE "LT")
      opA == IF n.Type = "Min" THEN 1 ELSE 0
      checkreg == Emit(n.choices[i], b)
      b1 == EmitOp(checkreg.b, opcode, IF checkreg.e.Konst THEN "RK" ELSE "RR", opA,
                   bestreg.RegNum, checkreg.e.RegNum)
      b2 == EmitOp(b1, "JMP", "", 1, 0, 0)
  IN  IF checkreg.e.Konst
      THEN EmitOp(b2, IF bestreg.RegType = REGT_FLOAT THEN "LKF" ELSE "LK", "",
                  bestreg.RegNum, checkreg.e.RegNum, 0)
      ELSE Free(EmitOp(b2, IF bestreg.RegType = REGT_FLOAT THEN "MOVEF" ELSE "MOVE", "",
                       bestreg.RegNum, checkreg.e.RegNum, 0), checkreg.e)

\* The loop from choice i on.
RECURSIVE MinMaxLoop(_, _, _, _)
MinMaxLoop(n, i, b, bestreg) ==
  IF i > Len(n.choices) THEN b
  ELSE MinMaxLoop(n, i + 1, MinMaxStep(n, i, b, bestreg), bestreg)

FxMinMax_Emit(n, b) ==
  LET new == ExpEmitNew(b, GetRegType(n.ValueType))
      bestreg == IF isConstant(n.choices[1])
                 THEN ER(EmitLoad(new.b, new.e, n.choices[1]), new.e)
                 ELSE Emit(n.choices[1], b)
  IN  ER(MinMaxLoop(n, 2, bestreg.b, bestreg.e), bestreg.e)

\* loadops of FxAssign::Emit, by register class.
loadops(regtype) ==
  CASE regtype = REGT_INT -> "LK"
    [] regtype = REGT_FLOAT -> "LKF"
    [] regtype = REGT_STRING -> "LKS"
    [] OTHER -> "LKP"

FxAssign_Emit(n, b) ==
  LET pointer == Emit(n.Base, b)
      result == Emit(n.Right, pointer.b)
      temp == ExpEmitNew(result.b, result.e.RegType)
      loaded == Free(EmitOp(temp.b, loadops(result.e.RegType), "", temp.e.RegNum,
                            result.e.RegNum, 0), result.e)
      zero == GetConstantInt(IF result.e.Konst THEN loaded ELSE result.b, 0)
      stored == IF result.e.Konst THEN temp.e ELSE result.e
      r == IF pointer.e.Target
           THEN IF result.e.Konst
                THEN ER(EmitOp(result.b, loadops(result.e.RegType), "", pointer.e.RegNum,
                               result.e.RegNum, 0), result.e)
                ELSE ER(EmitOp(result.b, GetMoveOp(n.Right.ValueType), "", pointer.e.RegNum,
                               result.e.RegNum, 0), result.e)
           ELSE ER(EmitOp(zero.b, GetStoreOp(n.ValueType), "", pointer.e.RegNum,
                          stored.RegNum, zero.reg), stored)
  IN  IF n.AddressRequested THEN ER(Free(r.b, r.e), pointer.e)
      ELSE ER(Free(r.b, pointer.e), r.e)

\* The add or subtract of one that both increments emit.
IncrDecrOp(b, n, regtype, to, from) ==
  LET one == IF regtype = REGT_INT THEN GetConstantInt(b, 1)
             ELSE GetConstantFloat(b, FromInt(1))
      op == IF regtype = REGT_INT THEN (IF n.Token = "++" THEN "ADD" ELSE "SUB")
            ELSE (IF n.Token = "++" THEN "ADDF" ELSE "SUBF")
  IN  EmitOp(one.b, op, "RK", to, from, one.reg)

FxPreIncrDecr_Emit(n, b) ==
  LET zero == GetConstantInt(b, 0)
      regtype == GetRegType(n.ValueType)
      pointer == Emit(n.Base, zero.b)
      new == ExpEmitNew(pointer.b, regtype)
      value == IF pointer.e.Target THEN pointer.e ELSE new.e
      b1 == IF pointer.e.Target THEN pointer.b
            ELSE EmitOp(new.b, GetLoadOp(n.ValueType), "", value.RegNum, pointer.e.RegNum,
                        zero.reg)
      b2 == IncrDecrOp(b1, n, regtype, value.RegNum, value.RegNum)
      b3 == IF pointer.e.Target THEN b2
            ELSE EmitOp(b2, GetStoreOp(n.ValueType), "", pointer.e.RegNum, value.RegNum,
                        zero.reg)
  IN  IF n.AddressRequested THEN ER(Free(b3, value), pointer.e)
      ELSE ER(Free(b3, pointer.e), value)

FxPostIncrDecr_Emit(n, b) ==
  LET zero == GetConstantInt(b, 0)
      regtype == GetRegType(n.ValueType)
      pointer == Emit(n.Base, zero.b)
      new == ExpEmitNew(pointer.b, regtype)
      out == IF pointer.e.Target THEN pointer.e ELSE new.e
      b1 == IF pointer.e.Target THEN pointer.b
            ELSE EmitOp(new.b, GetLoadOp(n.ValueType), "", out.RegNum, pointer.e.RegNum,
                        zero.reg)
      assign == ExpEmitNew(b1, regtype)
      b2 == IncrDecrOp(assign.b, n, regtype, assign.e.RegNum, out.RegNum)
      b3 == IF pointer.e.Target THEN b2
            ELSE EmitOp(b2, GetStoreOp(n.ValueType), "", pointer.e.RegNum, assign.e.RegNum,
                        zero.reg)
  IN  ER(Free(Free(b3, pointer.e), assign.e), out)

\* The array is never a constant here and the element size is a power of 2.
FxArrayElement_Emit(n, b) ==
  LET start == Emit(n.Array, b)
      arraytype == PArray(n.Array.ValueType)
      dest == ExpEmitNew(start.b, GetRegType(arraytype.ElementType))
      indexval == GetInt(n.index) * arraytype.ElementSize
      k == GetConstantInt(dest.b, indexval)
      indexv == Emit(n.index, dest.b)
      shiftbits == CHOOSE s \in 0..8 : 2 ^ s = arraytype.ElementSize
      bound == EmitOp(indexv.b, "BOUND", "", indexv.e.RegNum, arraytype.ElementCount, 0)
      shifted == IF shiftbits > 0
                 THEN EmitOp(bound, "SLL", "RI", indexv.e.RegNum, indexv.e.RegNum, shiftbits)
                 ELSE bound
      b1 == IF isConstant(n.index)
            THEN IF n.AddressRequested
                 THEN IF indexval # 0
                      THEN EmitOp(k.b, "ADDA", "RK", start.e.RegNum, start.e.RegNum, k.reg)
                      ELSE dest.b
                 ELSE EmitOp(k.b, GetLoadOp(arraytype.ElementType), "", dest.e.RegNum,
                             start.e.RegNum, k.reg)
            ELSE Free(IF n.AddressRequested
                      THEN EmitOp(shifted, "ADDA", "RR", start.e.RegNum, start.e.RegNum,
                                  indexv.e.RegNum)
                      ELSE EmitOp(shifted, GetLoadOp(arraytype.ElementType), "R",
                                  dest.e.RegNum, start.e.RegNum, indexv.e.RegNum),
                      indexv.e)
  IN  IF n.AddressRequested THEN ER(Free(b1, dest.e), start.e)
      ELSE ER(Free(b1, start.e), dest.e)

\* The argument loop of FxActionSpecialCall::Emit from argument i on.
RECURSIVE SpecialEmitArgs(_, _, _)
SpecialEmitArgs(args, i, b) ==
  IF i > Len(args) THEN b
  ELSE LET arg == Emit(args[i], b)
       IN  IF isConstant(args[i])
           THEN SpecialEmitArgs(args, i + 1, EmitParamInt(b, GetInt(args[i])))
           ELSE SpecialEmitArgs(args, i + 1,
                  Free(EmitOp(arg.b, "PARAM", "", 0, arg.e.RegType, arg.e.RegNum), arg.e))

FxActionSpecialCall_Emit(n, b) ==
  LET b1 == EmitOp(EmitOp(b, "PARAMI", "", Abs(n.Special), 0, 0),
                   "PARAM", "", 0, REGT_POINTER, 0)
      b2 == SpecialEmitArgs(n.ArgList, 1, b1)
      k == GetConstantAddress(b2, "DecoCallLineSpecial")
      dest == ExpEmitNew(k.b, REGT_INT)
  IN  IF n.EmitTail
      THEN ER(EmitOp(k.b, "TAIL", "K", k.reg, 2 + Len(n.ArgList), 0),
              [ExpEmitNone EXCEPT !.Final = TRUE])
      ELSE ER(EmitOp(EmitOp(dest.b, "CALL", "K", k.reg, 2 + Len(n.ArgList), 1),
                     "RESULT", "", 0, REGT_INT, dest.e.RegNum), dest.e)

\* EmitParameter: a PARAM of the operand's register, mode K for a constant.
EmitParameter(b, operand) ==
  LET where == Emit(operand, b)
  IN  IF where.e.RegType = REGT_NIL
      THEN EmitOp([where.b EXCEPT !.msgs = Append(@, "Attempted to pass a non-value")],
                  "PARAM", "", 0, where.e.RegType, where.e.RegNum)
      ELSE Free(EmitOp(where.b, "PARAM", IF where.e.Konst THEN "K" ELSE "", 0,
                       where.e.RegType, where.e.RegNum), where.e)

\* The loop of FxVMFunctionCall::Emit over the explicit arguments.
RECURSIVE VMCallEmitArgs(_, _, _)
VMCallEmitArgs(args, i, b) ==
  IF i > Len(args) THEN b
  ELSE VMCallEmitArgs(args, i + 1, EmitParameter(b, args[i]))

\* The implied parameters of FxVMFunctionCall::Emit: [b, count].  Self is
\* emitted and counted; the two action pointers are passed and counted.
VMCallImplied(n, b) ==
  LET method == "VARF_Method" \in n.Function.Flags
      action == "VARF_Action" \in n.Function.Flags
      b1 == IF method THEN Emit(n.Self, b).b ELSE b
      null == GetConstantAddress(b1, "nullptr")
      b2 == IF ~action THEN b1
            ELSE IF b1.IsActionFunc
            THEN EmitOp(EmitOp(b1, "PARAM", "", 0, REGT_POINTER, 1),
                        "PARAM", "", 0, REGT_POINTER, 2)
            ELSE EmitOp(EmitOp(null.b, "PARAM", "K", 0, REGT_POINTER, null.reg),
                        "PARAM", "K", 0, REGT_POINTER, null.reg)
  IN  [b |-> b2, count |-> (IF method THEN 1 ELSE 0) + (IF action THEN 2 ELSE 0)]

FxVMFunctionCall_Emit(n, b) ==
  LET implied == VMCallImplied(n, b)
      count == Len(n.ArgList) + implied.count
      b1 == VMCallEmitArgs(n.ArgList, 1, implied.b)
      funcaddr == GetConstantAddress(b1, n.Function.SymbolName)
      rets == n.Function.ReturnTypes
      reg == ExpEmitNew(funcaddr.b, GetRegType(rets[1]))
  IN  IF n.EmitTail
      THEN ER(EmitOp(funcaddr.b, "TAIL", "K", funcaddr.reg, count, 0),
              [ExpEmitNone EXCEPT !.Final = TRUE])
      ELSE IF Len(rets) > 0
      THEN ER(EmitOp(EmitOp(reg.b, "CALL", "K", funcaddr.reg, count, 1),
                     "RESULT", "", 0, reg.e.RegType, reg.e.RegNum), reg.e)
      ELSE ER(EmitOp(funcaddr.b, "CALL", "K", funcaddr.reg, count, 0), ExpEmitNone)

FxFlopFunctionCall_Emit(n, b) ==
  LET v == Emit(n.ArgList[1], b)
  IN  ER(EmitOp(v.b, "FLOP", "", v.e.RegNum, v.e.RegNum, "FLOP_SQRT"), v.e)

(***************************************************************************)
(* Emission of statements.                                                 *)
(***************************************************************************)
\* One pass of the loop of FxSequence::Emit: the statement is emitted and
\* its result thrown away.
SequenceEmitStep(expr, b) ==
  LET v == Emit(expr, b) IN Free(v.b, v.e)

RECURSIVE SequenceEmit(_, _, _)
SequenceEmit(exprs, i, b) ==
  IF i > Len(exprs) THEN b
  ELSE SequenceEmit(exprs, i + 1, SequenceEmitStep(exprs[i], b))

\* FxLocalVariableDeclaration::Release
Release(l, b) == Return(b, GetRegType(l.ValueType), b.RegNum[l.id])

\* The loop of FxCompoundStatement::Emit that releases the block's variables.
RECURSIVE ReleaseAll(_, _, _)
ReleaseAll(vars, i, b) ==
  IF i > Len(vars) THEN b ELSE ReleaseAll(vars, i + 1, Release(vars[i], b))

FxCompoundStatement_Emit(n, b) ==
  ER(ReleaseAll(n.LocalVars, 1, SequenceEmit(n.Expressions, 1, b)), ExpEmitNone)

FxIfStatement_Emit(n, b) ==
  LET cond == Emit(n.Condition, b)
      path1 == IF ~IsNull(n.WhenTrue) THEN n.WhenTrue ELSE n.WhenFalse
      path2 == IF ~IsNull(n.WhenTrue) THEN n.WhenFalse ELSE Null
      zero == GetConstantInt(cond.b, 0)
      b1 == EmitOp(zero.b, "EQ", "K", IF ~IsNull(n.WhenTrue) THEN 1 ELSE 0,
                   cond.e.RegNum, zero.reg)
      jumpspot == GetAddress(b1)
      b2 == SequenceEmitStep(path1, Free(EmitOp(b1, "JMP", "", 0, 0, 0), cond.e))
      path1jump == GetAddress(b2)
      b3 == SequenceEmitStep(path2, BackpatchToHere(EmitOp(b2, "JMP", "", 0, 0, 0), jumpspot))
  IN  IF IsNull(path2) THEN ER(BackpatchToHere(b2, jumpspot), ExpEmitNone)
      ELSE ER(BackpatchToHere(b3, path1jump), ExpEmitNone)

\* The value's location is the result, marked final.
FxReturnStatement_Emit(n, b) ==
  LET out == Emit(n.Value, b)
      ret == IF out.e.Final THEN out.b
             ELSE IF n.Value.ValueType = "TypeVoid"
             THEN EmitOp(out.b, "RET", "", "RET_FINAL", REGT_NIL, 0)
             ELSE EmitOp(out.b, "RET", IF out.e.Konst THEN "K" ELSE "", "RET_FINAL",
                         out.e.RegType, out.e.RegNum)
  IN  IF IsNull(n.Value)
      THEN ER(EmitOp(b, "RET", "", "RET_FINAL", REGT_NIL, 0),
              [ExpEmitAt(0, REGT_NIL, FALSE, FALSE) EXCEPT !.Final = TRUE])
      ELSE ER(ret, [out.e EXCEPT !.Final = TRUE])

\* FxLoopStatement::Backpatch from jump i on: a break goes to the loop's end,
\* a continue to its start.  A jump on the list that was never emitted has no
\* address to patch, which badpatch records.
\* A faulty variant of FxLoopStatement::Backpatch, which sends every jump to
\* the end of the loop; C23 must tell it from the real one.
RECURSIVE AllToLoopEnd(_, _, _, _, _)
AllToLoopEnd(jumps, i, b, loopstart, loopend) ==
  IF i > Len(jumps) THEN b
  ELSE IF jumps[i].jump \notin DOMAIN b.Address
  THEN AllToLoopEnd(jumps, i + 1, [b EXCEPT !.badpatch = TRUE], loopstart, loopend)
  ELSE AllToLoopEnd(jumps, i + 1, Backpatch(b, b.Address[jumps[i].jump], loopend),
                    loopstart, loopend)

RECURSIVE LoopBackpatch(_, _, _, _, _)
LoopBackpatch(jumps, i, b, loopstart, loopend) ==
  IF i > Len(jumps) THEN b
  ELSE IF jumps[i].jump \notin DOMAIN b.Address
  THEN LoopBackpatch(jumps, i + 1, [b EXCEPT !.badpatch = TRUE], loopstart, loopend)
  ELSE LoopBackpatch(jumps, i + 1,
         Backpatch(b, b.Address[jumps[i].jump],
                   IF jumps[i].Token = "break" THEN loopend ELSE loopstart),
         loopstart, loopend)

FxWhileLoop_Emit(n, b) ==
  LET loopstart == GetAddress(b)
      cond == Emit(n.Condition, b)
      b1 == EmitOp(cond.b, "TEST", "", cond.e.RegNum, 0, 0)
      jumpspot == GetAddress(b1)
      b2 == IF isConstant(n.Condition) THEN b
            ELSE Free(EmitOp(b1, "JMP", "", 0, 0, 0), cond.e)
      b3 == IF IsNull(n.Code) THEN b2 ELSE SequenceEmitStep(n.Code, b2)
      b4 == Backpatch(EmitOp(b3, "JMP", "", 0, 0, 0), GetAddress(b3), loopstart)
      loopend == GetAddress(b4)
      b5 == IF isConstant(n.Condition) THEN b4 ELSE Backpatch(b4, jumpspot, loopend)
  IN  ER(LoopBackpatch(n.Jumps, 1, b5, loopstart, loopend), ExpEmitNone)

FxDoWhileLoop_Emit(n, b) ==
  LET codestart == GetAddress(b)
      b1 == IF IsNull(n.Code) THEN b ELSE SequenceEmitStep(n.Code, b)
      loopstart == GetAddress(b1)
      cond == Emit(n.Condition, b1)
      b2 == Free(EmitOp(cond.b, "TEST", "", cond.e.RegNum, 1, 0), cond.e)
      b3 == IF ~isConstant(n.Condition)
            THEN Backpatch(EmitOp(b2, "JMP", "", 0, 0, 0), GetAddress(b2), codestart)
            ELSE IF GetBool(n.Condition)
            THEN Backpatch(EmitOp(b1, "JMP", "", 0, 0, 0), GetAddress(b1), codestart)
            ELSE b1
  IN  ER(LoopBackpatch(n.Jumps, 1, b3, loopstart, GetAddress(b3)), ExpEmitNone)

FxForLoop_Emit(n, b) ==
  LET b0 == IF IsNull(n.Init) THEN b ELSE SequenceEmitStep(n.Init, b)
      codestart == GetAddress(b0)
      cond == Emit(n.Condition, b0)
      b1 == EmitOp(cond.b, "TEST", "", cond.e.RegNum, 0, 0)
      jumpspot == GetAddress(b1)
      b2 == IF IsNull(n.Condition) THEN b0
            ELSE EmitOp(Free(b1, cond.e), "JMP", "", 0, 0, 0)
      b3 == IF IsNull(n.Code) THEN b2 ELSE SequenceEmitStep(n.Code, b2)
      loopstart == GetAddress(b3)
      b4 == IF IsNull(n.Iteration) THEN b3 ELSE SequenceEmitStep(n.Iteration, b3)
      b5 == Backpatch(EmitOp(b4, "JMP", "", 0, 0, 0), GetAddress(b4), codestart)
      loopend == GetAddress(b5)
      b6 == IF IsNull(n.Condition) THEN b5 ELSE Backpatch(b5, jumpspot, loopend)
  IN  ER(LoopBackpatch(n.Jumps, 1, b6, loopstart, loopend), ExpEmitNone)

FxJumpStatement_Emit(n, b) ==
  ER([EmitOp(b, "JMP", "", 0, 0, 0) EXCEPT !.Address = (n.id :> GetAddress(b)) @@ @],
     ExpEmitNone)

\* FxLocalVariableDeclaration::Emit: a variable without initial value or with
\* a constant one gets a register of its own; otherwise it takes over the
\* register the initial value was emitted to.  The load of the constant
\* names the constant first and the register second.
FxLocalVariableDeclaration_Emit(n, b) ==
  LET own == Get(b, GetRegType(n.ValueType))
      emitval == Emit(n.Init, b)
      regtype == emitval.e.RegType
      new == Get(emitval.b, regtype)
      k == CASE regtype = REGT_FLOAT -> GetConstantFloat(new.b, GetFloat(n.Init))
             [] regtype = REGT_INT -> GetConstantInt(new.b, GetInt(n.Init))
             [] OTHER -> GetConstantAddress(new.b, n.Init.value)
  IN  IF IsNull(n.Init)
      THEN ER([own.b EXCEPT !.RegNum = (n.id :> own.reg) @@ @], ExpEmitNone)
      ELSE IF regtype < REGT_INT \/ regtype > REGT_TYPE
      THEN ER([emitval.b EXCEPT !.msgs = Append(@, "Attempted to assign a non-value")],
              ExpEmitNone)
      ELSE IF emitval.e.Konst
      THEN ER(Free([EmitOp(k.b, loadops(regtype), "", k.reg, new.reg, 0)
                      EXCEPT !.RegNum = (n.id :> new.reg) @@ @], emitval.e), ExpEmitNone)
      ELSE ER([emitval.b EXCEPT !.RegNum = (n.id :> emitval.e.RegNum) @@ @], ExpEmitNone)

\* Emit of a node, by its class.
Emit(n, b) ==
  CASE n.k = "Nop" -> ER(b, ExpEmitNone)
    [] n.k = "Constant" -> FxConstant_Emit(n, b)
    [] n.k = "LocalVariable" -> FxLocalVariable_Emit(n, b)
    [] n.k = "Self" -> FxSelf_Emit(n, b)
    [] n.k = "ClassMember" -> FxClassMember_Emit(n, b)
    [] n.k = "BoolCast" -> FxBoolCast_Emit(n, b)
    [] n.k = "IntCast" -> FxIntCast_Emit(n, b)
    [] n.k = "FloatCast" -> FxFloatCast_Emit(n, b)
    [] n.k = "NameCast" -> FxNameCast_Emit(n, b)
    [] n.k = "StringCast" -> FxStringCast_Emit(n, b)
    [] n.k = "AddSub" -> FxAddSub_Emit(n, b)
    [] n.k = "MulDiv" -> FxMulDiv_Emit(n, b)
    [] n.k = "CompareRel" -> FxCompareRel_Emit(n, b)
    [] n.k = "CompareEq" -> FxCompareEq_Emit(n, b)
    [] n.k = "LtGtEq" -> FxLtGtEq_Emit(n, b)
    [] n.k = "BinaryLogical" -> FxBinaryLogical_Emit(n, b)
    [] n.k = "Conditional" -> FxConditional_Emit(n, b)
    [] n.k = "Abs" -> FxAbs_Emit(n, b)
    [] n.k = "MinusSign" -> FxMinusSign_Emit(n, b)
    [] n.k = "MinMax" -> FxMinMax_Emit(n, b)
    [] n.k = "Assign" -> FxAssign_Emit(n, b)
    [] n.k = "ActionSpecialCall" -> FxActionSpecialCall_Emit(n, b)
    [] n.k = "ReturnStatement" -> FxReturnStatement_Emit(n, b)
    [] n.k = "PreIncrDecr" -> FxPreIncrDecr_Emit(n, b)
    [] n.k = "PostIncrDecr" -> FxPostIncrDecr_Emit(n, b)
    [] n.k = "ArrayElement" -> FxArrayElement_Emit(n, b)
    [] n.k = "VMFunctionCall" -> FxVMFunctionCall_Emit(n, b)
    [] n.k = "FlopFunctionCall" -> FxFlopFunctionCall_Emit(n, b)
    [] n.k = "CompoundStatement" -> FxCompoundStatement_Emit(n, b)
    [] n.k = "IfStatement" -> FxIfStatement_Emit(n, b)
    [] n.k = "WhileLoop" -> FxWhileLoop_Emit(n, b)
    [] n.k = "DoWhileLoop" -> FxDoWhileLoop_Emit(n, b)
    [] n.k = "ForLoop" -> FxForLoop_Emit(n, b)
    [] n.k = "JumpStatement" -> FxJumpStatement_Emit(n, b)
    [] n.k = "LocalVariableDeclaration" -> FxLocalVariableDeclaration_Emit(n, b)

(***************************************************************************)
(* The programs compiled: function bodies, each a compound statement,      *)
(* built from the operands below.                                          *)
(***************************************************************************)
IntConsts == {FxConstantInt(i) : i \in 0..MaxInt}

FloatConsts == {FxConstantFloat(Rat(i, 2)) : i \in 0..(MaxInt + 1)}

BoolConsts == {FxConstantBool(TRUE), FxConstantBool(FALSE)}

NameConst == FxConstant("spawn", "TypeName")

\* The int argument, the float argument and the int field of self.
Vars == {FxIdentifier("i"), FxIdentifier("f"), FxIdentifier("health")}

\* An identifier nothing declares: its Resolve fails.
Undeclared == FxIdentifier("nope")

\* A bool that is not a constant.
Test == FxCompareRel("<", FxIdentifier("i"), FxConstantInt(1))

Operands == IntConsts \cup FloatConsts \cup BoolConsts \cup Vars \cup {NameConst, Undeclared}

Body(stmts) == FxCompoundStatement(stmts)

ArithmeticPrograms ==
  {Body(<<FxAddSub(o, l, r)>>) : o \in {"+", "-"}, l \in Operands, r \in Operands}
  \cup {Body(<<FxMulDiv(o, l, r)>>) : o \in {"*", "/", "%"}, l \in Operands, r \in Operands}

ComparePrograms ==
  {Body(<<FxCompareRel(o, l, r)>>) : o \in {"<", ">="}, l \in Operands, r \in Operands}
  \cup {Body(<<FxLtGtEq(l, r)>>) : l \in Operands, r \in Operands}

\* Equality between operands of every type: self, the null pointer, an
\* actor, an inventory item (an actor too) and a state.
FxConstantNull == FxConstant("nullptr", "TypeNullPtr")

Pointers ==
  {FxSelf, FxConstantNull, FxIdentifier("target"), FxIdentifier("item"),
   FxIdentifier("curstate")}

EqualityOperands ==
  Pointers \cup {FxConstantInt(1), FxConstantFloat(Rat(1, 2)), FxConstantBool(TRUE), NameConst,
                 FxConstant("spawn", "TypeString"), FxIdentifier("i"), FxIdentifier("f"),
                 FxIdentifier("dormant"), Undeclared}

EqualityPrograms ==
  {Body(<<FxCompareEq(o, l, r)>>) :
     o \in {"==", "!="}, l \in EqualityOperands, r \in EqualityOperands}

LogicalOperands ==
  BoolConsts \cup IntConsts \cup Vars \cup {FxConstantFloat(Rat(1, 2)), Test, Undeclared}

LogicalPrograms ==
  {Body(<<FxBinaryLogical(o, l, r)>>) :
     o \in {"&&", "||"}, l \in LogicalOperands, r \in LogicalOperands}

Branches ==
  {FxConstantInt(1), FxConstantFloat(Rat(1, 2)), FxIdentifier("i"), FxIdentifier("f"),
   FxIdentifier("health"), Undeclared}

ConditionalPrograms ==
  {Body(<<FxConditional(c, t, f)>>) :
     c \in BoolConsts \cup {Test, FxIdentifier("i"), Undeclared},
     t \in Branches, f \in Branches}
  \cup {Body(<<FxAbs(v)>>) : v \in Operands}
  \cup {Body(<<FxMinusSign(v)>>) : v \in Operands \cup {Test}}

Choices ==
  IntConsts \cup {FxConstantFloat(Rat(1, 2)), FxIdentifier("i"), FxIdentifier("f"),
                  FxIdentifier("health")}

ChoiceLists == UNION {[1..len -> Choices] : len \in 2..MaxChoices}

MinMaxPrograms ==
  {Body(<<FxMinMax(list, type)>>) : list \in ChoiceLists, type \in {"Min", "Max"}}

\* 3 + 4 * 2 and 3.9
Example11 == FxAddSub("+", FxConstantInt(3), FxMulDiv("*", FxConstantInt(4), FxConstantInt(2)))

Example39 == FxConstantFloat(Rat(39, 10))

AssignPrograms ==
  {Body(<<FxAssign(base, right)>>) :
     base \in Vars \cup {FxConstantInt(1), Undeclared},
     right \in Operands \cup {Example11, Example39}}

CastPrograms ==
  {Body(<<FxIntCast(x, nowarn)>>) : x \in Operands \cup {Example39}, nowarn \in BOOLEAN}
  \cup {Body(<<FxTypeCast(x, type, FALSE, garbage)>>) :
          x \in Operands \cup {Example39},
          type \in {"TypeSInt32", "TypeFloat64", "TypeBool"}, garbage \in BOOLEAN}
  \cup {Body(<<FxStringCast(x)>>) :
          x \in {NameConst, FxConstant("spawn", "TypeString"), FxIdentifier("species"),
                 FxIdentifier("activesound"), FxIdentifier("i"), Undeclared}}

Arguments ==
  {FxConstantInt(1), FxConstantFloat(Rat(3, 2)), FxIdentifier("i"), FxIdentifier("f"),
   NameConst, Undeclared}

CallPrograms ==
  {Body(<<FxActionSpecialCall(Null, 1, args)>>) :
     args \in [1..1 -> Arguments] \cup [1..2 -> Arguments]}

\* A declaration of a, then a statement that uses a.
Uses ==
  {FxLocalVariableDeclaration("TypeSInt32", "b", FxIdentifier("a"), "none", FALSE),
   FxLocalVariableDeclaration("TypeFloat64", "b", FxIdentifier("a"), "none", FALSE),
   FxAssign(FxIdentifier("a"), FxConstantInt(1)),
   FxAssign(FxIdentifier("a"), FxIdentifier("a")),
   FxAddSub("+", FxIdentifier("a"), FxIdentifier("i")),
   FxLtGtEq(FxIdentifier("a"), FxIdentifier("health")),
   FxPreIncrDecr(FxIdentifier("a"), "++"),
   FxPostIncrDecr(FxIdentifier("a"), "--"),
   FxCompoundStatement(<<FxLocalVariableDeclaration("TypeSInt32", "c", Null, "none", FALSE),
                         FxAssign(FxIdentifier("c"), FxIdentifier("a"))>>)}

DeclarationPrograms ==
  {Body(<<FxLocalVariableDeclaration(type, "a", init, flags, garbage)>>) :
     type \in {"TypeSInt32", "TypeFloat64"}, init \in Operands \cup {Null, Example39},
     flags \in {"none"}, garbage \in BOOLEAN}
  \cup {Body(<<FxLocalVariableDeclaration(type, "a", init, flags, FALSE), use>>) :
          type \in {"TypeSInt32", "TypeFloat64"},
          init \in {Null, FxConstantInt(1), FxIdentifier("i"), FxIdentifier("health")},
          flags \in {"none", "VARF_ReadOnly"}, use \in Uses}

\* Loops and jumps: a jump outside any loop, in one loop, in the inner or
\* after the inner of two nested loops, and after a loop.
Jump(id) == {FxJumpStatement(id, token) : token \in {"break", "continue"}}

Guarded(id) == {FxIfStatement(Test, j, Null) : j \in Jump(id)} \cup Jump(id)

Conditions == {FxConstantBool(TRUE), FxConstantBool(FALSE), Test, Undeclared}

LoopPrograms ==
  {Body(<<j>>) : j \in Guarded(1)}
  \cup {Body(<<FxWhileLoop(1, c, FxCompoundStatement(<<j>>))>>) :
          c \in Conditions, j \in Guarded(1)}
  \cup {Body(<<FxWhileLoop(1, c, FxCompoundStatement(<<j1>>)), j2>>) :
          c \in Conditions, j1 \in Jump(1), j2 \in Jump(2)}
  \cup {Body(<<FxWhileLoop(1, c1,
                 FxCompoundStatement(<<FxWhileLoop(2, c2, FxCompoundStatement(<<j1>>)), j2>>))>>) :
          c1 \in {Test, FxConstantBool(TRUE)}, c2 \in Conditions,
          j1 \in Guarded(1) \cup {Undeclared}, j2 \in Jump(2)}
  \cup {Body(<<FxWhileLoop(1, Test, Null)>>), Body(<<FxWhileLoop(1, FxConstantBool(TRUE), Null)>>)}

\* Calls by name of the functions of the class, of a flop, of a line
\* special, of built-in functions and of a name nothing defines, with no to
\* three arguments.
CallNames == {"GetHealth", "A_Act", "Scale", "sqrt", "Teleport", "abs", "min", "clamp",
              "nope"}

CallArgs == {FxConstantInt(1), FxIdentifier("i"), FxIdentifier("f")}

ArgLists ==
  {<<>>} \cup {<<a>> : a \in CallArgs} \cup {<<a, b>> : a, b \in CallArgs}
  \cup {<<a, b, c>> : a, b, c \in CallArgs}

FunctionCallPrograms ==
  {Body(<<FxFunctionCall(name, args, uninit, beyond)>>) :
     name \in CallNames, args \in ArgLists, uninit \in BOOLEAN,
     beyond \in {"garbage", "TypeSInt32"}}

\* Return statements: of nothing, of a call, of a value that is no call and
\* of a value computed from a call; one in each branch of an if; and two in
\* a row.
Call(name, args) == FxFunctionCall(name, args, FALSE, "garbage")

Calls ==
  {Call("GetHealth", <<a>>) : a \in CallArgs} \cup {Call("A_Act", <<a>>) : a \in CallArgs}
  \cup {Call("Scale", <<a, b>>) : a, b \in CallArgs}
  \cup {Call("Teleport", <<a>>) : a \in {FxConstantInt(1), FxIdentifier("i")}}
  \cup {Call("abs", <<FxIdentifier("i")>>), Call("sqrt", <<FxIdentifier("f")>>)}

Returned ==
  Calls \cup {Null, FxConstantInt(1), FxIdentifier("i"), FxIdentifier("f"), Undeclared}
  \cup {FxAddSub("+", c, FxConstantInt(1)) : c \in Calls}
  \cup {FxAbs(c) : c \in Calls}

ReturnPrograms ==
  {Body(<<FxReturnStatement(v)>>) : v \in Returned}
  \cup {Body(<<FxIfStatement(Test, FxReturnStatement(v), FxReturnStatement(w))>>) :
          v \in Calls, w \in {Null, FxConstantInt(1), Call("GetHealth", <<FxConstantInt(1)>>)}}
  \cup {Body(<<c, FxReturnStatement(v)>>) : c \in Calls, v \in {Null, FxIdentifier("i")}}

\* Increments and decrements of variables, fields and array elements that
\* can and cannot be written, of a bool, of a name, of a constant, of a sum,
\* of an increment, and assignments to the same.
Elements ==
  {FxArrayElement(FxIdentifier("args"), i) :
     i \in IntConsts \cup {FxIdentifier("i"), FxIdentifier("f"), NameConst, Undeclared}}
  \cup {FxArrayElement(a, FxConstantInt(1)) :
          a \in {FxIdentifier("spawnargs"), FxIdentifier("health"), Undeclared}}

Targets ==
  Vars \cup Elements
  \cup {FxIdentifier("speed"), FxIdentifier("dormant"), FxIdentifier("mass"), FxConstantInt(1),
        NameConst, Undeclared, FxAddSub("+", FxIdentifier("i"), FxConstantInt(1))}

Tokens == {"++", "--"}

IncrDecrs ==
  {FxPreIncrDecr(t, token) : t \in Targets, token \in Tokens}
  \cup {FxPostIncrDecr(t, token) : t \in Targets, token \in Tokens}

IncrDecrPrograms ==
  {Body(<<x>>) : x \in IncrDecrs}
  \cup {Body(<<FxPreIncrDecr(x, token)>>) :
          x \in {FxPreIncrDecr(t, "++") : t \in Vars} \cup {FxPostIncrDecr(t, "++") : t \in Vars},
          token \in Tokens}
  \cup {Body(<<FxAssign(t, FxConstantInt(1))>>) :
          t \in Targets \cup {FxPreIncrDecr(FxIdentifier("i"), "++"),
                              FxPostIncrDecr(FxIdentifier("i"), "++")}}

\* An if with a condition that is a constant of any numeric type or is not
\* one, and with each branch absent, present or failing.
IfBranches ==
  {Null, Undeclared, FxAssign(FxIdentifier("i"), FxConstantInt(1)),
   FxPreIncrDecr(FxIdentifier("health"), "++")}

IfPrograms ==
  {Body(<<FxIfStatement(c, t, f)>>) :
     c \in BoolConsts \cup IntConsts \cup FloatConsts \cup {Test, Undeclared},
     t \in IfBranches, f \in IfBranches}

\* For loops with and without init, condition, iteration and body, with a
\* break or a continue in the body, and followed by another statement.
ForBodies ==
  {Null, FxCompoundStatement(<<FxPreIncrDecr(FxIdentifier("f"), "++")>>)}
  \cup {FxCompoundStatement(<<j, FxPreIncrDecr(FxIdentifier("f"), "++")>>) : j \in Guarded(1)}

\* Loops whose body is an if with a constant condition and a jump in one
\* branch or in both.
FoldedJumpPrograms ==
  {Body(<<FxWhileLoop(1, Test,
            FxCompoundStatement(<<FxIfStatement(FxConstantBool(c), j, e),
                                  FxPreIncrDecr(FxIdentifier("f"), "++")>>))>>) :
     c \in BOOLEAN, j \in Jump(1), e \in {Null} \cup Jump(2)}

DoWhilePrograms ==
  {Body(<<FxDoWhileLoop(1, c, code)>>) : c \in Conditions, code \in ForBodies}

ForPrograms ==
  {Body(<<FxForLoop(1, init, c, iter, code)>>) :
     init \in {Null, FxAssign(FxIdentifier("health"), FxConstantInt(1))},
     c \in Conditions \cup {Null, FxIdentifier("i")},
     iter \in {Null, FxPreIncrDecr(FxIdentifier("i"), "++"), Undeclared},
     code \in ForBodies}
  \cup {Body(<<FxForLoop(1, FxAssign(FxIdentifier("health"), FxConstantInt(1)), Test,
                         FxPreIncrDecr(FxIdentifier("i"), "++"), code),
               FxPostIncrDecr(FxIdentifier("speed"), "--")>>) : code \in ForBodies}

Programs ==
  ArithmeticPrograms \cup ComparePrograms \cup LogicalPrograms \cup ConditionalPrograms
  \cup MinMaxPrograms \cup AssignPrograms \cup CastPrograms \cup CallPrograms
  \cup DeclarationPrograms \cup LoopPrograms \cup FunctionCallPrograms \cup ReturnPrograms
  \cup IncrDecrPrograms \cup IfPrograms \cup ForPrograms \cup EqualityPrograms
  \cup DoWhilePrograms \cup FoldedJumpPrograms

(***************************************************************************)
(* The compilation of one function: its body is resolved, and if that      *)
(* succeeds emitted statement by statement, after which the variables of   *)
(* the body are released.                                                  *)
(***************************************************************************)
VARIABLES prog, pc, body, ctx, build, idx, ip

vars == <<prog, pc, body, ctx, build, idx, ip>>

Init ==
  /\ prog \in Programs
  /\ pc = "resolve"
  /\ body = prog
  /\ ctx \in {FCompileContext(fnc, Null, fromdecorate) :
                fnc \in Callers, fromdecorate \in BOOLEAN}
  /\ build = VMFunctionBuilder("VARF_Action" \in ctx.Function.Flags)
  /\ idx = 1
  /\ ip = 0

\* The body is resolved.  A read through a null node pointer either stops
\* the compiler or lets it go on with the failure it had already noted.
ResolveBody ==
  /\ pc = "resolve"
  /\ LET r == Resolve(body, ctx)
     IN  /\ body' = r.n
         /\ ctx' = r.c
         /\ pc' \in IF r.c.nullread \/ r.c.overread THEN {"crashed", "failed"}
                    ELSE IF IsNull(r.n) THEN {"failed"} ELSE {"emit"}
  /\ UNCHANGED <<prog, build, idx, ip>>

\* One pass of the loop of FxSequence::Emit over the body.
EmitStatement ==
  /\ pc = "emit"
  /\ idx <= Len(body.Expressions)
  /\ build' = SequenceEmitStep(body.Expressions[idx], build)
  /\ idx' = idx + 1
  /\ UNCHANGED <<prog, pc, body, ctx, ip>>

\* The end of FxCompoundStatement::Emit of the body.
CloseBody ==
  /\ pc = "emit"
  /\ idx > Len(body.Expressions)
  /\ build' = ReleaseAll(body.LocalVars, 1, build)
  /\ pc' = "done"
  /\ UNCHANGED <<prog, body, ctx, idx, ip>>

\* The instructions that skip the one after them when their test comes out
\* one way, and the addresses the VM can go to from the instruction at an
\* address: a jump goes a signed distance from the instruction after it, a
\* test or comparison goes on or skips one instruction, depending on register
\* contents that are not followed here, and a return ends the function.
Skipping == {"TEST", "EQ", "EQA", "EQF", "LT", "LTF", "LE", "LEF"}

Successors(code, at) ==
  LET i == code[at + 1]
  IN  CASE i.op = "JMP" -> {at + 1 + i.a}
        [] i.op \in Skipping -> {at + 1, at + 2}
        [] i.op \in {"RET", "TAIL"} -> {}
        [] OTHER -> {at + 1}

\* The VM executes one instruction of the compiled function.  Execution is
\* followed for the functions that begin with a for loop.
Step ==
  /\ pc = "done"
  /\ prog.Expressions[1].k = "ForLoop"
  /\ ip \in 0..(Len(build.code) - 1)
  /\ ip' \in Successors(build.code, ip)
  /\ UNCHANGED <<prog, pc, body, ctx, build, idx>>

Next == ResolveBody \/ EmitStatement \/ CloseBody \/ Step

Spec == Init /\ [][Next]_vars

(***************************************************************************)
(* Properties.  Statement is the statement compiled, Out what Resolve made *)
(* of it once the body has resolved.                                       *)
(***************************************************************************)
Statement == prog.Expressions[1]

Resolved == pc \in {"emit", "done"}

Out == body.Expressions[1]

\* The context in which the statements of the body resolve.
InBody ==
  [FCompileContext(ctx.Function, Null, ctx.FromDecorate) EXCEPT !.Block = << <<>> >>]

HasMessage(sev, text) ==
  \E i \in 1..Len(ctx.msgs) : ctx.msgs[i].sev = sev /\ ctx.msgs[i].text = text

HasError == \E i \in 1..Len(ctx.msgs) : ctx.msgs[i].sev = "MSG_ERROR"

\* C1: after a && or || with a constant left side has resolved: if the right
\* side is constant too, the result is the constant AND (resp. OR) of the two
\* values; otherwise true && right and false || right are the resolved right
\* operand alone, false && right is the constant false and true || right the
\* constant true.
C1_ShortCircuitFolding ==
  (Resolved /\ Statement.k = "BinaryLogical" /\ isConstant(Statement.left)) =>
    LET l == GetBool(Statement.left)
        and == Statement.Operator = "&&"
        right == Resolve(Statement.right, InBody)
    IN  IF isConstant(Statement.right)
        THEN /\ isConstant(Out)
             /\ GetBool(Out) = IF and THEN l /\ GetBool(Statement.right)
                               ELSE l \/ GetBool(Statement.right)
        ELSE IF and = l
        THEN Out = LogicalOperand(right.n, right.c).n
        ELSE isConstant(Out) /\ GetBool(Out) = l

\* The instruction divides by a constant that is zero.
DividesByConstantZero(i) ==
  /\ i.op \in {"DIV", "MOD", "DIVF", "MODF"}
  /\ i.mode = "RK"
  /\ IF i.op \in {"DIV", "MOD"} THEN build.IntConstants[i.c + 1] = 0
     ELSE build.FloatConstants[i.c + 1] = FromInt(0)

\* C2: once a division or modulo whose right operand is the int or float
\* constant 0 has been resolved, the compilation has failed with an error,
\* whatever the left operand; and no division or modulo instruction emitted
\* has a constant divisor that is zero.
C2_DivisionByConstantZero ==
  /\ (/\ pc # "resolve"
      /\ Statement.k = "MulDiv"
      /\ Statement.Operator \in {"/", "%"}
      /\ isConstant(Statement.right)
      /\ Statement.right.ValueType \in {"TypeSInt32", "TypeFloat64"}
      /\ GetFloat(Statement.right) = FromInt(0))
     => (pc = "failed" /\ HasError)
  /\ \A i \in 1..Len(build.code) : ~DividesByConstantZero(build.code[i])

\* The registers held by the variables of the body that have been emitted.
Owned(t) ==
  {build.RegNum[body.LocalVars[i].id] :
     i \in {j \in 1..Len(body.LocalVars) :
              /\ GetRegType(body.LocalVars[j].ValueType) = t
              /\ body.LocalVars[j].id \in DOMAIN build.RegNum}}

\* C3: between two statements of the body, after FxSequence::Emit has freed
\* the result of the one before, the registers in use are those the function
\* started with and those taken over by the variables of the body: every
\* other register acquired has been released.
C3_NoRegisterLeak ==
  pc = "emit" =>
    \A t \in RegClasses : build.Registers[t] \subseteq Reserved(build.IsActionFunc)[t] \cup Owned(t)

\* C4: no register is returned to the allocator while it is free, by
\* ExpEmit::Free or by the release of a variable when its block closes.
C4_NoDoubleRelease == build.doublefree = 0

\* The loop around the node of class kind and number id under n, loop being
\* the loop around n: 0 outside every loop, -1 if n has no such node.
RECURSIVE Around(_, _, _, _)
Around(n, kind, id, loop) ==
  IF (n.k = kind \/ (kind = "Loop" /\ n.k \in {"WhileLoop", "DoWhileLoop", "ForLoop"})) /\ n.id = id THEN loop
  ELSE LET kids == CASE n.k = "CompoundStatement" ->
                          {n.Expressions[i] : i \in 1..Len(n.Expressions)}
                     [] n.k = "IfStatement" -> {n.WhenTrue, n.WhenFalse}
                     [] n.k \in {"WhileLoop", "DoWhileLoop", "ForLoop"} -> {n.Code}
                     [] OTHER -> {}
           inner == IF n.k \in {"WhileLoop", "DoWhileLoop", "ForLoop"} THEN n.id ELSE loop
           found == {Around(x, kind, id, inner) : x \in kids} \ {-1}
       IN  IF found = {} THEN -1 ELSE CHOOSE x \in found : TRUE

\* Resolve has come to a jump statement that no loop encloses: the first
\* statement of the body is one, alone or under an if, or the second is and
\* the loop before it has resolved.
ReachedJumpOutsideLoop ==
  \/ Around(Statement, "JumpStatement", 1, 0) = 0
  \/ /\ Len(prog.Expressions) = 2
     /\ prog.Expressions[2].k = "JumpStatement"
     /\ Len(ctx.exits) = 1
     /\ ~ctx.exits[1].failed

\* C5: once Resolve has come to a break or continue that no loop encloses,
\* the compilation has failed and the last message is the error "outside of
\* a loop"; and no jump list holds a jump that no loop encloses.
C5_JumpOutsideLoop ==
  pc # "resolve" =>
    /\ \A i \in 1..Len(ctx.Jumps) :
         Around(prog, "JumpStatement", ctx.Jumps[i].jump, 0) # 0
    /\ ReachedJumpOutsideLoop =>
         /\ pc = "failed"
         /\ IsNull(body)
         /\ ctx.msgs # <<>>
         /\ ctx.msgs[Len(ctx.msgs)] = [sev |-> "MSG_ERROR", text |-> "outside of a loop"]

\* A jump after a resolved loop has failed, the jump inside the loop being
\* on the list of the loop.
C5_Witness ==
  /\ pc = "failed"
  /\ Len(prog.Expressions) = 2
  /\ prog.Expressions[2].k = "JumpStatement"
  /\ Len(ctx.exits) = 1
  /\ ~ctx.exits[1].failed
  /\ Len(ctx.Jumps) = 1
  /\ ctx.Jumps[1].loop = 1

\* C6: every jump recorded is on the list of the innermost loop around it in
\* the program; every loop left, resolved or failed, has made the loop
\* around it the current one again; and outside the body no loop is current.
C6_InnermostLoop ==
  /\ \A i \in 1..Len(ctx.Jumps) :
       ctx.Jumps[i].loop = Around(prog, "JumpStatement", ctx.Jumps[i].jump, 0)
  /\ \A i \in 1..Len(ctx.exits) :
       ctx.exits[i].current = Around(prog, "Loop", ctx.exits[i].loop, 0)
  /\ ctx.Loop = 0

\* Two nested loops have resolved; the jump in the inner one is on the inner
\* list and the jump after the inner loop on the outer list.
C6_Witness ==
  /\ Resolved
  /\ Len(ctx.exits) = 2
  /\ ctx.exits[1] = [loop |-> 2, current |-> 1, failed |-> FALSE]
  /\ Len(ctx.Jumps) = 2
  /\ ctx.Jumps[1].loop = 2 /\ ctx.Jumps[1].jump = 1
  /\ ctx.Jumps[2].loop = 1 /\ ctx.Jumps[2].jump = 2
  /\ Len(Out.Jumps) = 1

\* A constant of a numeric type, bool included.
NumericConstant(x) ==
  isConstant(x) /\ x.ValueType \in {"TypeSInt32", "TypeFloat64", "TypeBool"}

\* The statement is an arithmetic node over two numeric constants whose
\* operator is defined on them.
Foldable ==
  /\ Statement.k \in {"AddSub", "MulDiv"}
  /\ NumericConstant(Statement.left)
  /\ NumericConstant(Statement.right)
  /\ Statement.Operator \in {"/", "%"} => GetFloat(Statement.right) # FromInt(0)

\* z is x o y in the integers; no operand of the programs is negative.
IntResult(o, x, y, z) ==
  CASE o = "+" -> z = x + y
    [] o = "-" -> z = x - y
    [] o = "*" -> z = x * y
    [] o = "/" -> z = x \div y
    [] o = "%" -> z = x % y

\* z is x o y in the rationals, the remainder being that of fmod.
FloatResult(o, x, y, z) ==
  CASE o = "+" -> z.n * x.d * y.d = (x.n * y.d + y.n * x.d) * z.d
    [] o = "-" -> z.n * x.d * y.d = (x.n * y.d - y.n * x.d) * z.d
    [] o = "*" -> z.n * x.d * y.d = x.n * y.n * z.d
    [] o = "/" -> z.n * x.d * y.n = x.n * y.d * z.d
    [] o = "%" -> /\ z.n >= 0
                  /\ z.n * y.d < y.n * z.d
                  /\ \E q \in 0..(x.n * y.d) : (x.n * z.d - z.n * x.d) * y.d = q * y.n * x.d * z.d

\* x = 3 + 4 * 2 with x an int variable.
Example ==
  Statement.k = "Assign" /\ Statement.Base = FxIdentifier("i") /\ Statement.Right = Example11

\* C7: an arithmetic node over two numeric constants, the divisor of / and %
\* not zero, resolves to one constant: the int the operator yields on the int
\* values when neither operand is a float, the float it yields on the float
\* values otherwise.  And i = 3 + 4 * 2 resolves to an assignment of the
\* constant 11 whose whole code is one load of the constant 11 into the
\* register of i.
C7_ConstantFolding ==
  /\ (pc # "resolve" /\ Foldable) =>
       /\ Resolved
       /\ isConstant(Out)
       /\ IF "TypeFloat64" \in {Statement.left.ValueType, Statement.right.ValueType}
          THEN /\ Out.ValueType = "TypeFloat64"
               /\ Out.value.d > 0
               /\ FloatResult(Statement.Operator, GetFloat(Statement.left),
                              GetFloat(Statement.right), Out.value)
          ELSE /\ Out.ValueType = "TypeSInt32"
               /\ IntResult(Statement.Operator, GetInt(Statement.left),
                            GetInt(Statement.right), Out.value)
  /\ (pc # "resolve" /\ Example) =>
       /\ Resolved
       /\ Out.k = "Assign"
       /\ Out.Right = [FxConstantInt(11) EXCEPT !.isresolved = Out.Right.isresolved]
       /\ pc = "done" =>
            /\ Len(build.code) = 1
            /\ build.code[1].op = "LK"
            /\ build.code[1].a = build.RegNum["i"]
            /\ build.IntConstants[build.code[1].b + 1] = 11

\* i = 3 + 4 * 2 has been compiled.
C7_Witness == pc = "done" /\ Example /\ Len(build.code) = 1

\* The variable a choice reads, "constant" for a constant.
RECURSIVE Key(_)
Key(x) ==
  CASE x.k = "Identifier" -> x.Identifier
    [] x.k = "LocalVariable" -> x.Variable.Name
    [] x.k = "ClassMember" -> x.membervar.SymbolName
    [] x.k = "FloatCast" -> Key(x.basex)
    [] OTHER -> "constant"

\* The positions of the list of min/max that stay: the choices that are not
\* constant and the first constant.
Kept ==
  LET list == Statement.choices
  IN  {i \in 1..Len(list) :
         isConstant(list[i]) => \A j \in 1..(i - 1) : ~isConstant(list[j])}

\* The j-th of them.
Nth(j) == CHOOSE i \in Kept : Cardinality({m \in Kept : m <= i}) = j

\* The least (resp. greatest) value of the constants of the list.
BestConstant ==
  LET list == Statement.choices
      values == {GetFloat(list[i]) : i \in {j \in 1..Len(list) : isConstant(list[j])}}
  IN  CHOOSE v \in values :
        \A w \in values : IF Statement.Type = "Min" THEN ~RatLess(w, v) ELSE ~RatLess(v, w)

\* The compare instructions of the code.
Compares == {i \in 1..Len(build.code) : build.code[i].op \in {"LE", "LT", "LEF", "LTF"}}

\* C8: min/max of two or more int and float choices resolves.  If every
\* choice is a constant the result is the constant that is the least (resp.
\* greatest) of them.  Otherwise it is a min/max node whose choices are the
\* choices that were not constant, in their order, and, where the first
\* constant was, one constant with the least (resp. greatest) value of all
\* the constants.  Its code has one compare per choice after the first,
\* each followed by the jump over one copy into the register that the
\* compare reads as the best.
C8_MinMax ==
  (pc # "resolve" /\ Statement.k = "MinMax") =>
    /\ Resolved
    /\ IF \A i \in 1..Len(Statement.choices) : isConstant(Statement.choices[i])
       THEN isConstant(Out) /\ GetFloat(Out) = BestConstant
       ELSE /\ Out.k = "MinMax"
            /\ Out.Type = Statement.Type
            /\ Len(Out.choices) = Cardinality(Kept)
            /\ \A j \in 1..Len(Out.choices) :
                 /\ Key(Out.choices[j]) = Key(Statement.choices[Nth(j)])
                 /\ isConstant(Out.choices[j]) => GetFloat(Out.choices[j]) = BestConstant
            /\ pc = "done" =>
                 /\ Cardinality(Compares) = Len(Out.choices) - 1
                 /\ \A i \in Compares :
                      /\ i + 2 <= Len(build.code)
                      /\ build.code[i].a = IF Out.Type = "Min" THEN 1 ELSE 0
                      /\ build.code[i + 1].op = "JMP"
                      /\ build.code[i + 1].a = 1
                      /\ build.code[i + 2].op \in {"LK", "LKF", "MOVE", "MOVEF"}
                      /\ build.code[i + 2].a = build.code[i].b

\* min or max of a variable, two constants of which the second is the
\* better, and a variable has been compiled.
C8_Witness ==
  /\ pc = "done"
  /\ Statement.k = "MinMax"
  /\ Len(Statement.choices) = 3
  /\ ~isConstant(Statement.choices[1])
  /\ isConstant(Statement.choices[2])
  /\ isConstant(Statement.choices[3])
  /\ GetFloat(Statement.choices[2]) # BestConstant
  /\ Len(Out.choices) = 2
  /\ Cardinality(Compares) = 1

\* The statement holds an int cast of a float constant: made directly, or by
\* FxTypeCast for a caller that asked for warnings, which the declaration of
\* a variable does for its initial value.
CastOperand ==
  IF Statement.k = "LocalVariableDeclaration" THEN Statement.Init.basex ELSE Statement.basex

IntCastOfFloatConstant ==
  /\ \/ Statement.k = "IntCast"
     \/ Statement.k = "TypeCast" /\ Statement.ValueType = "TypeSInt32"
     \/ /\ Statement.k = "LocalVariableDeclaration"
        /\ Statement.ValueType = "TypeSInt32"
        /\ ~IsNull(Statement.Init)
  /\ isConstant(CastOperand)
  /\ CastOperand.ValueType = "TypeFloat64"

\* The no-warn flag the maker of the cast asked for.
NoWarnRequested == IF Statement.k = "IntCast" THEN Statement.NoWarn ELSE FALSE

\* C9: an int cast of a float constant resolves to the int constant that is
\* the float cut to an integer, and the warning "Truncation of floating point
\* constant" is given exactly when the float is not an integer and the maker
\* of the cast did not ask for no warning.
C9_IntCastOfConstant ==
  (pc # "resolve" /\ IntCastOfFloatConstant) =>
    LET folded == IF Statement.k = "LocalVariableDeclaration" THEN Out.Init ELSE Out
        v == CastOperand.value
    IN  /\ Resolved
        /\ isConstant(folded)
        /\ folded.ValueType = "TypeSInt32"
        /\ folded.value = v.n \div v.d
        /\ HasMessage("MSG_WARNING", "Truncation of floating point constant")
             <=> (v.n % v.d # 0 /\ ~NoWarnRequested)

\* The children of a node: those it cannot do without, then those that may
\* be absent.
Required(n) ==
  CASE n.k \in {"AddSub", "MulDiv", "CompareRel", "CompareEq", "LtGtEq", "BinaryLogical"} ->
         <<n.left, n.right>>
    [] n.k \in {"BoolCast", "IntCast", "FloatCast", "NameCast", "StringCast", "TypeCast"} ->
         <<n.basex>>
    [] n.k = "Conditional" -> <<n.condition, n.truex, n.falsex>>
    [] n.k = "Abs" -> <<n.val>>
    [] n.k = "MinusSign" -> <<n.Operand>>
    [] n.k = "MinMax" -> n.choices
    [] n.k = "Assign" -> <<n.Base, n.Right>>
    [] n.k \in {"PreIncrDecr", "PostIncrDecr"} -> <<n.Base>>
    [] n.k = "ArrayElement" -> <<n.Array, n.index>>
    [] n.k \in {"ActionSpecialCall", "VMFunctionCall", "FlopFunctionCall"} -> n.ArgList
    [] n.k = "ClassMember" -> <<n.classx>>
    [] n.k = "CompoundStatement" -> n.Expressions
    [] n.k \in {"IfStatement", "WhileLoop", "DoWhileLoop"} -> <<n.Condition>>
    [] OTHER -> <<>>

Optional(n) ==
  CASE n.k \in {"ActionSpecialCall", "VMFunctionCall"} -> <<n.Self>>
    [] n.k = "ReturnStatement" -> <<n.Value>>
    [] n.k = "IfStatement" -> <<n.WhenTrue, n.WhenFalse>>
    [] n.k \in {"WhileLoop", "DoWhileLoop"} -> <<n.Code>>
    [] n.k = "ForLoop" -> <<n.Init, n.Condition, n.Iteration, n.Code>>
    [] n.k = "LocalVariableDeclaration" -> <<n.Init>>
    [] OTHER -> <<>>

\* Resolve of some node under n fails: the identifier is not declared.
RECURSIVE HasFailingNode(_)
HasFailingNode(n) ==
  \/ n = Undeclared
  \/ \E i \in 1..Len(Required(n)) : HasFailingNode(Required(n)[i])
  \/ \E i \in 1..Len(Optional(n)) : HasFailingNode(Optional(n)[i])

\* No node under n holds a null pointer where it needs a child.
RECURSIVE NoNullChild(_)
NoNullChild(n) ==
  /\ \A i \in 1..Len(Required(n)) : ~IsNull(Required(n)[i]) /\ NoNullChild(Required(n)[i])
  /\ \A i \in 1..Len(Optional(n)) : NoNullChild(Optional(n)[i])

\* C10: when Resolve of a node of the program fails, Resolve of the body
\* fails and returns no node; a body that has resolved holds no null child;
\* and no Resolve has read through a child pointer that was null because the
\* child had just failed.
C10_FailurePropagates ==
  pc # "resolve" =>
    /\ HasFailingNode(prog) => (pc = "failed" /\ IsNull(body))
    /\ Resolved => NoNullChild(body)
    /\ ~ctx.nullread

\* The context of a second Resolve: the one the body left, inside the block
\* of the body and inside loop l (0 for no loop).
Again(l) == [ctx EXCEPT !.Loop = l, !.Block = <<body.LocalVars>>]

\* Resolve of n, and of every node under n, that has resolved before returns
\* the node and the context it was given, but for the log of the loops left.
RECURSIVE ResolvesToItself(_)
ResolvesToItself(n) ==
  /\ (~IsNull(n) /\ n.isresolved) =>
       \A l \in 0..2 :
         LET r == Resolve(n, Again(l))
         IN  r.n = n /\ [r.c EXCEPT !.exits = ctx.exits] = Again(l)
  /\ \A i \in 1..Len(Required(n)) : ResolvesToItself(Required(n)[i])
  /\ \A i \in 1..Len(Optional(n)) : ResolvesToItself(Optional(n)[i])

\* C11: Resolve of a node that has resolved returns the same node and leaves
\* the context as it was: no child changes, no jump is pushed on a loop
\* again, no declaration is pushed on its block again, no message is given.
C11_ResolveIdempotent == Resolved => ResolvesToItself(body)

\* A loop with a recorded jump has resolved.
C11_Witness ==
  /\ Resolved
  /\ Out.k = "WhileLoop"
  /\ Out.isresolved
  /\ Len(Out.Jumps) = 1
  /\ Len(ctx.Jumps) = 1
  /\ Out.Code.Expressions[1].k \in {"JumpStatement", "IfStatement"}
  /\ Out.Code.Expressions[1].isresolved

\* The statement is a call of a function of the class, compiled to the end.
CallCompiled == pc = "done" /\ Out.k = "VMFunctionCall"

IsParam(i) == i.op = "PARAM"

IsCall(i) == i.op \in {"CALL", "TAIL"}

\* The parameter instructions an action function's two pointers take in a
\* caller that is or is not an action function.
ActionPointers(caller, null) ==
  IF caller
  THEN <<Instr("PARAM", "", 0, REGT_POINTER, 1), Instr("PARAM", "", 0, REGT_POINTER, 2)>>
  ELSE <<Instr("PARAM", "K", 0, REGT_POINTER, null), Instr("PARAM", "K", 0, REGT_POINTER, null)>>

\* C12: in the code of a call the parameter instructions are as many as the
\* count in the call instruction; a method's receiver is passed by the first
\* of them, pointer register 0, before the explicit arguments; an action
\* function is next passed pointer registers 1 and 2 by an action caller and
\* the null constant twice by another.
C12_ImplicitParameters ==
  CallCompiled =>
    LET params == SelectSeq(build.code, IsParam)
        calls == SelectSeq(build.code, IsCall)
        method == "VARF_Method" \in Out.Function.Flags
        action == "VARF_Action" \in Out.Function.Flags
        first == IF method THEN 1 ELSE 0
        null == ConstantIndex(build.AddressConstants, "nullptr")
    IN  /\ Len(calls) = 1
        /\ Len(params) = calls[1].b
        /\ Len(params) = Len(Out.ArgList) + Implicit(Out.Function)
        /\ method => Len(params) >= 1 /\ params[1] = Instr("PARAM", "", 0, REGT_POINTER, 0)
        /\ action => /\ Len(params) >= first + 2
                     /\ SubSeq(params, first + 1, first + 2)
                          = ActionPointers(build.IsActionFunc, null)

\* The statement is a call by name with that many arguments.
IsCallOf(names) == Statement.k = "FunctionCall" /\ Statement.MethodName \in names

Got == Len(Statement.ArgList)

\* The least and the greatest number of explicit arguments the callee
\* declares, max < 0 for no limit: the parameters of a function of the class
\* less the implicit ones, one argument of a flop and of abs, two or more of
\* min, and what the table of line specials says.
DeclaredArity(name) ==
  LET afd == FindClassMemberFunction(name)
      declared == Len(afd.ArgumentTypes) - Implicit(afd)
  IN  CASE ~IsNull(afd) -> [min |-> declared, max |-> declared]
        [] name \in {"sqrt", "abs"} -> [min |-> 1, max |-> 1]
        [] name = "min" -> [min |-> 2, max |-> 0 - 1]
        [] OTHER -> [min |-> P_FindLineSpecial(name).min, max |-> P_FindLineSpecial(name).max]

TooFew == Got < DeclaredArity(Statement.MethodName).min

TooMany ==
  DeclaredArity(Statement.MethodName).max >= 0 /\ Got > DeclaredArity(Statement.MethodName).max

\* An error message that states that number as expected and that as got.
HasArityError(expected, got) ==
  \E i \in 1..Len(ctx.msgs) :
    /\ ctx.msgs[i].sev = "MSG_ERROR"
    /\ "expected" \in DOMAIN ctx.msgs[i]
    /\ ctx.msgs[i].expected = expected
    /\ ctx.msgs[i].got = got

\* C13: a call with fewer arguments than the callee's least or more than its
\* greatest number fails to resolve with an error that states the number
\* expected and the number got, whether the callee is a function of the
\* class, a built-in function or a line special; and no argument is cast to
\* a type read past the end of the callee's parameter types.
C13_ArityChecked ==
  (pc # "resolve" /\ IsCallOf(CallNames \ {"nope"})) =>
    /\ ~ctx.overread
    /\ TooFew => pc = "failed"
                 /\ HasArityError(DeclaredArity(Statement.MethodName).min, Got)
    /\ TooMany => pc = "failed"
                  /\ HasArityError(DeclaredArity(Statement.MethodName).max, Got)

\* The nodes of the tree of n, each with whether it is the value of a return
\* statement.
RECURSIVE Nodes(_, _), NodesOf(_, _, _)
Nodes(n, direct) ==
  IF IsNull(n) THEN <<>>
  ELSE <<[n |-> n, direct |-> direct]>>
       \o NodesOf(Required(n) \o Optional(n), 1, n.k = "ReturnStatement")

NodesOf(children, i, direct) ==
  IF i > Len(children) THEN <<>>
  ELSE Nodes(children[i], direct) \o NodesOf(children, i + 1, direct)

IsCallNode(p) == p.n.k \in {"VMFunctionCall", "ActionSpecialCall"}

IsReturnedCall(p) == IsCallNode(p) /\ p.direct

IsOtherCall(p) == IsCallNode(p) /\ ~p.direct

\* A return statement whose value is no call.
IsPlainReturn(p) ==
  p.n.k = "ReturnStatement"
  /\ (IsNull(p.n.Value) \/ p.n.Value.k \notin {"VMFunctionCall", "ActionSpecialCall"})

IsReturn(p) == p.n.k = "ReturnStatement"

IsTail(i) == i.op = "TAIL"

IsPlainCall(i) == i.op = "CALL"

IsRet(i) == i.op = "RET"

ThreeWay == Statement.k = "LtGtEq" /\ Resolved /\ Out.k = "LtGtEq"

\* The operand as resolved, and with the cast to float around it as resolved.
Promoted(operand) ==
  LET x == Resolve(operand, InBody).n
  IN  {x, Resolve(FxFloatCast(x), InBody).n}

IsLess(i) == i.op \in {"LT", "LTF"}

IsLessOrEqual(i) == i.op \in {"LE", "LEF"}

\* C15: the children of a resolved l <>= r are l and r as resolved, each as
\* it is or cast to float; and its code evaluates the left child, then the
\* right child, each once, and tests the two registers they yield for less
\* and for equal.
C15_OperandsOnce ==
  ThreeWay =>
    /\ Out.left \in Promoted(Statement.left)
    /\ Out.right \in Promoted(Statement.right)
    /\ pc = "done" =>
         LET l == Emit(Out.left, VMFunctionBuilder(build.IsActionFunc))
             r == Emit(Out.right, l.b)
             n == Len(r.b.code)
             less == SelectSeq(build.code, IsLess)
             equal == SelectSeq(build.code, IsLessOrEqual)
         IN  /\ Len(build.code) = n + 8
             /\ SubSeq(build.code, 1, n) = r.b.code
             /\ Len(less) = 1 /\ less[1].b = l.e.RegNum /\ less[1].c = r.e.RegNum
             /\ Len(equal) = 1 /\ equal[1].b = l.e.RegNum /\ equal[1].c = r.e.RegNum

\* The statement is an increment or decrement of a variable, a field or an
\* array element, compiled to the end.
IncrDecrCompiled ==
  /\ pc = "done"
  /\ Len(body.Expressions) = 1
  /\ Out.k \in {"PreIncrDecr", "PostIncrDecr"}
  /\ Out.Base.k \in {"LocalVariable", "ClassMember", "ArrayElement"}

IsAddSub(i) == i.op \in {"ADD", "SUB", "ADDF", "SUBF"}

IsLoad(i) == i.op \in {"LW", "LDP"}

IsStore(i) == i.op \in {"SW", "SDP"}

\* The place in the code of its only instruction of that kind.
At(IsKind(_)) == CHOOSE j \in 1..Len(build.code) : IsKind(build.code[j])

\* C16: the code of ++x, --x, x++ and x-- has one add or subtract of the
\* constant 1.  If x is held in a register it reads and writes that register
\* and nothing is loaded or stored; otherwise x is loaded from its address,
\* the loaded value is changed and the result stored to the same address.
\* The prefix forms yield the register written, the postfix forms a register
\* that is not written and that holds what was loaded; and a prefix form
\* whose address was requested yields the address.
C16_IncrDecr ==
  /\ IncrDecrCompiled =>
       LET b0 == VMFunctionBuilder(build.IsActionFunc)
           zero == GetConstantInt(b0, 0)
           pointer == Emit(Out.Base, zero.b).e
           result == Emit(Out, b0)
           regtype == GetRegType(Out.ValueType)
           ops == SelectSeq(build.code, IsAddSub)
           loads == SelectSeq(build.code, IsLoad)
           stores == SelectSeq(build.code, IsStore)
           op == ops[1]
           one == IF regtype = REGT_INT THEN ConstantIndex(build.IntConstants, 1)
                  ELSE ConstantIndex(build.FloatConstants, FromInt(1))
       IN  /\ build.code = result.b.code
           /\ Len(ops) = 1
           /\ op.op = IF regtype = REGT_INT THEN (IF Out.Token = "++" THEN "ADD" ELSE "SUB")
                      ELSE (IF Out.Token = "++" THEN "ADDF" ELSE "SUBF")
           /\ op.mode = "RK" /\ op.c = one
           /\ IF pointer.Target
              THEN loads = <<>> /\ stores = <<>>
                   /\ op.a = pointer.RegNum /\ op.b = pointer.RegNum
              ELSE /\ Len(loads) = 1 /\ Len(stores) = 1
                   /\ At(IsLoad) < At(IsAddSub) /\ At(IsAddSub) < At(IsStore)
                   /\ loads[1].b = pointer.RegNum /\ stores[1].a = pointer.RegNum
                   /\ op.b = loads[1].a /\ stores[1].b = op.a
           /\ result.e.RegType = regtype
           /\ Out.k = "PreIncrDecr" => result.e.RegNum = op.a
           /\ Out.k = "PostIncrDecr" =>
                /\ result.e.RegNum # op.a
                /\ ~pointer.Target => result.e.RegNum = loads[1].a
  /\ (pc = "done" /\ Out.k = "PreIncrDecr" /\ Out.Base.k = "PreIncrDecr") =>
       LET zero == GetConstantInt(VMFunctionBuilder(build.IsActionFunc), 0)
       IN  /\ Out.Base.AddressRequested
           /\ Emit(Out.Base, zero.b).e = Emit(Out.Base.Base, zero.b).e
           /\ Len(SelectSeq(build.code, IsAddSub)) = 2

\* The last statement of the function, the context its target is resolved
\* in, which has the declarations before it, and the target as resolved.
Write == prog.Expressions[Len(prog.Expressions)]

IsWrite == Write.k \in {"Assign", "PreIncrDecr", "PostIncrDecr"}

BeforeWrite ==
  IF Len(prog.Expressions) = 1 THEN InBody ELSE Resolve(prog.Expressions[1], InBody).c

Target == Resolve(Write.Base, BeforeWrite).n

\* Storage that cannot be written: a read-only variable or field, or an
\* element of a read-only array.
RECURSIVE ReadOnlyStorage(_)
ReadOnlyStorage(t) ==
  CASE t.k = "LocalVariable" -> t.Variable.VarFlags = "VARF_ReadOnly"
    [] t.k = "ClassMember" -> t.membervar.Flags = "VARF_ReadOnly"
    [] t.k = "ArrayElement" -> ReadOnlyStorage(t.Array)
    [] OTHER -> FALSE

\* A literal or a computed temporary.
IsTemporary(t) == t.k \in {"Constant", "AddSub", "VMFunctionCall", "ActionSpecialCall"}

\* C17: an assignment whose target is read-only storage, a literal or a
\* computed temporary, and an increment or decrement whose base is one of
\* those, is not numeric or is a bool, fails to resolve with an error and
\* yields no node.
C17_WritesNeedTarget ==
  (pc # "resolve" /\ IsWrite /\ ~IsNull(Target)) =>
    LET invalid == \/ ReadOnlyStorage(Target)
                   \/ IsTemporary(Target)
                   \/ Write.k # "Assign" /\ (~IsNumeric(Target) \/ Target.ValueType = "TypeBool")
    IN  invalid => pc = "failed" /\ IsNull(body) /\ HasError

\* An assignment to a read-only field has failed.
C17_Witness ==
  /\ pc = "failed"
  /\ IsNull(body)
  /\ Write.k = "Assign"
  /\ Target.k = "ClassMember"
  /\ ReadOnlyStorage(Target)
  /\ HasMessage("MSG_ERROR", "Expression must be a modifiable value")

\* What RequestAddress must answer for the node: granted exactly for the
\* classes given, writable exactly if the storage is not read-only, and
\* refused, not writable, for a literal and a computed temporary.
AnswersAsExpected(n, addressable) ==
  LET a == RequestAddress(n)
  IN  /\ n.k \in addressable => a.ok /\ (a.writable <=> ~ReadOnlyStorage(n))
      /\ IsTemporary(n) => ~a.ok /\ ~a.writable

Coerced ==
  LET c == Resolve(Statement.Condition, InBody).n
  IN  IF IsNull(c) \/ c.ValueType = "TypeBool" THEN c ELSE Resolve(FxBoolCast(c), InBody).n

Branch(b) == Resolve(b, InBody).n

ConstantIf ==
  /\ pc # "resolve"
  /\ Statement.k = "IfStatement"
  /\ ~IsNull(Coerced) /\ isConstant(Coerced)
  /\ ~IsNull(Statement.WhenTrue) => ~IsNull(Branch(Statement.WhenTrue))
  /\ ~IsNull(Statement.WhenFalse) => ~IsNull(Branch(Statement.WhenFalse))

Selected == IF GetBool(Coerced) THEN Statement.WhenTrue ELSE Statement.WhenFalse

IsTestOrJump(i) == i.op \in {"EQ", "JMP"}

\* C19: an if with a constant condition resolves without failure to the
\* branch the condition selects, as resolved, or to FxNop if that branch is
\* absent, and the code of the function is the code of that branch alone,
\* with no test and no jump.
C19_ConstantIf ==
  ConstantIf =>
    /\ pc # "failed" /\ ~IsNull(body)
    /\ Out = IF IsNull(Selected) THEN FxNop ELSE Branch(Selected)
    /\ pc = "done" =>
         /\ SelectSeq(build.code, IsTestOrJump) = <<>>
         /\ build.code = SequenceEmitStep(Out, VMFunctionBuilder(build.IsActionFunc)).code

\* The for loop the function begins with, as written and as resolved on its
\* own, and the number of instructions a part of it takes when it is emitted
\* as a statement on its own.
ForLoop == prog.Expressions[1]

ForResolved == Resolve(ForLoop.Init, InBody).n

Size(n) ==
  IF IsNull(n) THEN 0
  ELSE Len(SequenceEmitStep(n, VMFunctionBuilder(build.IsActionFunc)).code)

Running == pc = "done" /\ ForLoop.k = "ForLoop"

\* The addresses the parts of the compiled loop begin at, in the order init,
\* condition, test and exit jump, body, iteration, jump back, end.
TestAt == Size(Out.Init)

ExitAt == TestAt + Size(Out.Condition) + 1

BodyAt == IF IsNull(Out.Condition) THEN TestAt ELSE ExitAt + 1

IterationAt == BodyAt + Size(Out.Code)

BackAt == IterationAt + Size(Out.Iteration)

EndAt == BackAt + 1

Breaks ==
  {build.Address[Out.Jumps[j].jump] :
     j \in {x \in 1..Len(Out.Jumps) : Out.Jumps[x].Token = "break"}}

\* The init code is emitted: the function begins with it, and it is run
\* from the first instruction on.
InitEmitted ==
  (Running /\ ~IsNull(ForLoop.Init) /\ ~IsNull(ForResolved))
    => /\ Out.k = "ForLoop"
       /\ Size(ForResolved) > 0
       /\ Len(build.code) >= Size(ForResolved)
       /\ SubSeq(build.code, 1, Size(ForResolved))
            = SequenceEmitStep(ForResolved, VMFunctionBuilder(build.IsActionFunc)).code

\* One step of the compiled loop keeps the order of its parts.
InOrder ==
  (Running /\ Out.k = "ForLoop" /\ ip' # ip) =>
    CASE ip < TestAt -> ip' = ip + 1
      [] ip >= TestAt /\ ip < BodyAt ->
           \/ ip' > ip /\ ip' < BodyAt
           \/ ip = ExitAt - 1 /\ build.code[ip + 1].op = "TEST" /\ ip' = BodyAt
           \/ ip = ExitAt /\ ip' = EndAt
      [] ip >= BodyAt /\ ip < IterationAt ->
           \/ ip' > ip /\ ip' <= IterationAt
           \/ ip \in Breaks /\ ip' = EndAt
      [] ip >= IterationAt /\ ip < BackAt -> ip' = ip + 1
      [] ip = BackAt -> build.code[ip + 1].op = "JMP" /\ ip' = TestAt
      [] OTHER -> ip' > ip

\* C20: a for loop's init code, if it has any, is emitted and runs once,
\* before the first test of the condition; every round of the loop then runs
\* the test of the condition, the body, the iteration statement and a jump
\* back to the test of the condition; and the loop is left only by the
\* condition testing false or by a break.
C20_ForLoopOrder == [](InitEmitted) /\ [][InOrder]_vars

\* The statement is a while loop whose condition, made a bool, is a constant.
ConstantWhile ==
  /\ Statement.k = "WhileLoop"
  /\ ~IsNull(Coerced) /\ isConstant(Coerced)

Ops(code) == [i \in 1..Len(code) |-> code[i].op]

\* The code of a statement emitted on its own.
Alone(n) ==
  IF IsNull(n) THEN <<>>
  ELSE SequenceEmitStep(n, VMFunctionBuilder(build.IsActionFunc)).code

\* C21: a while loop whose condition is the constant false resolves to FxNop
\* and no code is emitted for it; the code of a while loop whose condition is
\* the constant true is the code of its body followed by one jump back to
\* the start of the loop, with no test and no exit jump before the body.
C21_ConstantWhile ==
  (ConstantWhile /\ pc = "done" /\ Len(prog.Expressions) = 1) =>
    IF GetBool(Coerced)
    THEN /\ Out.k = "WhileLoop"
         /\ Len(build.code) = Size(Out.Code) + 1
         /\ Ops(build.code) = Ops(Alone(Out.Code)) \o <<"JMP">>
         /\ build.code[Len(build.code)].a = 0 - Len(build.code)
    ELSE Out = FxNop /\ build.code = <<>>

\* A while (true) loop with a guarded break in its body has been compiled.
C21_Witness ==
  /\ ConstantWhile /\ pc = "done" /\ Len(prog.Expressions) = 1
  /\ GetBool(Coerced)
  /\ ~IsNull(Out.Code)
  /\ Out.Code.Expressions[1].k = "IfStatement"
  /\ Len(build.code) > 2

\* The statement is an equality comparison whose operands resolve, and the
\* types of its operands.
EqualityResolved ==
  /\ pc # "resolve"
  /\ Statement.k = "CompareEq"
  /\ ~IsNull(Resolve(Statement.left, InBody).n)
  /\ ~IsNull(Resolve(Statement.right, InBody).n)

LeftType == Resolve(Statement.left, InBody).n.ValueType

RightType == Resolve(Statement.right, InBody).n.ValueType

IntClass == {"TypeBool", "TypeSInt32"}

Numerics == IntClass \cup {"TypeFloat64"}

PointerTypes == {"TypeActor", "TypeInventory", "TypeState", "TypeNullPtr"}

\* The type the two operand types unify to, "none" if they do not.
Unified(lt, rt) ==
  CASE lt = "TypeBool" /\ rt = "TypeBool" -> "TypeBool"
    [] lt = "TypeName" /\ rt = "TypeName" -> "TypeName"
    [] lt # "TypeBool" /\ lt \in IntClass /\ rt \in IntClass -> "TypeSInt32"
    [] lt = "TypeBool" /\ rt = "TypeSInt32" -> "TypeSInt32"
    [] lt \in Numerics /\ rt \in Numerics /\ "TypeFloat64" \in {lt, rt} -> "TypeFloat64"
    [] /\ lt \in PointerTypes /\ rt \in PointerTypes
       /\ \/ lt = rt
          \/ "TypeNullPtr" \in {lt, rt}
          \/ lt = "TypeActor" /\ rt = "TypeInventory" -> "TypeBool"
    [] OTHER -> "none"

\* C22: the operand types of a binary operator unify to bool for two bools,
\* to name for two names, to int for two numerics of the int class and to
\* float for other numerics, and for pointers, under == and != only, to bool
\* if the types are the same, one is the null pointer or they are covariant;
\* with any other pair of types the resolution fails with an error, so that
\* a node that has resolved has a type.
C22_OperandTypes ==
  EqualityResolved =>
    IF Unified(LeftType, RightType) = "none"
    THEN pc = "failed" /\ HasError
    ELSE /\ pc \in {"emit", "done"}
         /\ Out.ValueType \in {"TypeBool", "TypeSInt32"}
         /\ ~isConstant(Out) =>
              /\ Out.k = "CompareEq"
              /\ GetRegType(Out.left.ValueType) = GetRegType(Out.right.ValueType)
              /\ GetRegType(Out.left.ValueType) = GetRegType(Unified(LeftType, RightType))
                    \/ Unified(LeftType, RightType) = "TypeBool"

\* The function begins with a loop that has been compiled as a loop.
LoopCompiled ==
  /\ pc = "done"
  /\ Statement.k \in {"WhileLoop", "DoWhileLoop", "ForLoop"}
  /\ Out.k = Statement.k

\* The number of instructions of the test of a condition: its code, the
\* test and the jump, nothing if it is a constant or absent.
TestSize(c) == IF IsNull(c) \/ isConstant(c) THEN 0 ELSE Size(c) + 2

\* The address the test of the loop's condition begins at, or would if the
\* condition had one, and the first address after the loop.
ConditionAt ==
  CASE Out.k = "WhileLoop" -> 0
    [] Out.k = "DoWhileLoop" -> Size(Out.Code)
    [] Out.k = "ForLoop" -> TestAt

LoopEnd ==
  CASE Out.k = "WhileLoop" -> TestSize(Out.Condition) + Size(Out.Code) + 1
    [] Out.k = "DoWhileLoop" ->
         Size(Out.Code) + (IF ~isConstant(Out.Condition) THEN TestSize(Out.Condition)
                           ELSE IF GetBool(Out.Condition) THEN 1 ELSE 0)
    [] Out.k = "ForLoop" -> EndAt

\* The address the jump instruction at an address goes to.
JumpTarget(at) == at + 1 + build.code[at + 1].a

\* Every jump on the loop's list that has been emitted goes to continueAt if
\* it is a continue and to the first address after the loop if it is a break.
Backpatched(continueAt) ==
  \A j \in 1..Len(Out.Jumps) :
    Out.Jumps[j].jump \in DOMAIN build.Address =>
      /\ build.code[build.Address[Out.Jumps[j].jump] + 1].op = "JMP"
      /\ JumpTarget(build.Address[Out.Jumps[j].jump])
           = IF Out.Jumps[j].Token = "break" THEN LoopEnd ELSE continueAt

IsLoopNode(p) == p.n.k \in {"WhileLoop", "DoWhileLoop", "ForLoop"}

IsJumpNode(p) == p.n.k = "JumpStatement"

LoopNodes == SelectSeq(Nodes(body, FALSE), IsLoopNode)

JumpNodes == SelectSeq(Nodes(body, FALSE), IsJumpNode)

Listed(loop) == {loop.Jumps[j].jump : j \in 1..Len(loop.Jumps)}

\* C24: when the function has been compiled, the list of each of its loops
\* holds the break and continue statements of that loop's body and no
\* others, each of them a statement of the resolved body whose jump has been
\* emitted; every jump emitted is on the list of exactly one loop; and no
\* backpatch went through a statement that was no longer there.
C24_PendingJumps ==
  pc = "done" =>
    /\ ~build.badpatch
    /\ \A l \in 1..Len(LoopNodes) :
         /\ Listed(LoopNodes[l].n)
              = {JumpNodes[j].n.id : j \in {x \in 1..Len(JumpNodes) :
                   Around(body, "JumpStatement", JumpNodes[x].n.id, 0) = LoopNodes[l].n.id}}
         /\ Listed(LoopNodes[l].n) \subseteq DOMAIN build.Address
         /\ Len(LoopNodes[l].n.Jumps) = Cardinality(Listed(LoopNodes[l].n))
    /\ \A a \in DOMAIN build.Address :
         Cardinality({l \in 1..Len(LoopNodes) : a \in Listed(LoopNodes[l].n)}) = 1

\* The statement has resolved to a binary operator node.
BinaryKinds == {"AddSub", "MulDiv", "CompareRel", "CompareEq", "LtGtEq"}

BinaryResolved == Resolved /\ Out.k \in BinaryKinds

\* The variant of the instruction that fits the constant side.
Variant(l, r) == IF isConstant(l) THEN "KR" ELSE IF isConstant(r) THEN "RK" ELSE "RR"

\* C25: a binary operator node that has resolved does not have two constant
\* operands; the code of + and * has its constant operand, if it has one,
\* second, the code of == and != likewise, and the code of -, / and % is the
\* register-constant, constant-register or register-register variant of the
\* instruction, according to the side the constant is on.
C25_OneConstant ==
  BinaryResolved =>
    /\ ~(isConstant(Out.left) /\ isConstant(Out.right))
    /\ (pc = "done" /\ Out.k \in {"AddSub", "MulDiv"}) =>
         build.code[Len(build.code)].mode
           = IF Out.Operator \in {"+", "*"}
             THEN (IF isConstant(Out.left) \/ isConstant(Out.right) THEN "RK" ELSE "RR")
             ELSE Variant(Out.left, Out.right)
    /\ (pc = "done" /\ Out.k = "CompareEq") =>
         build.code[Len(build.code) - 2].mode
           = IF isConstant(Out.left) \/ isConstant(Out.right) THEN "K" ELSE "R"

\* The statement has been compiled to a unary minus, a math intrinsic, an
\* absolute value, a min or max, or a conditional.
ValueCompiled ==
  /\ pc = "done"
  /\ Len(body.Expressions) = 1
  /\ Out.k \in {"MinusSign", "FlopFunctionCall", "Abs", "MinMax", "Conditional"}

\* The instructions whose first operand is an int register, or a float
\* register, that they write.
WritesInt(i) ==
  \/ i.op \in {"LI", "LK", "LW", "MOVE", "NEG", "ABS", "ADD", "SUB", "MUL", "DIV", "MOD", "SLL"}
  \/ i.op = "CAST" /\ i.mode = "F2I"

WritesFloat(i) ==
  \/ i.op \in {"LKF", "LDP", "MOVEF", "FLOP", "ADDF", "SUBF", "MULF", "DIVF", "MODF"}
  \/ i.op = "CAST" /\ i.mode = "I2F"

\* C26: the code of an expression that is no assignment and no increment or
\* decrement has no instruction that writes the register of a local variable
\* or of an argument of the function: with a variable as operand, the result
\* is made in another register.
C26_FixedRegistersKept ==
  ValueCompiled =>
    \A j \in 1..Len(build.code) :
      /\ WritesInt(build.code[j]) => build.code[j].a # build.RegNum["i"]
      /\ WritesFloat(build.code[j]) => build.code[j].a # build.RegNum["f"]

\* The body is made of declarations of local variables and has been emitted
\* and closed.
IsDeclaration(n) == n.k = "LocalVariableDeclaration"

DeclarationsCompiled ==
  /\ pc = "done"
  /\ \A s \in 1..Len(body.Expressions) : IsDeclaration(body.Expressions[s])

\* The variables in scope at the end of the body, the arguments i and f of
\* the function among them, and the register class of each.
InScope == {"i", "f"} \cup {body.Expressions[s].id : s \in 1..Len(body.Expressions)}

ClassOf(v) ==
  CASE v = "i" -> REGT_INT
    [] v = "f" -> REGT_FLOAT
    [] OTHER -> LET s == CHOOSE s \in 1..Len(body.Expressions) : body.Expressions[s].id = v
                IN  GetRegType(body.Expressions[s].ValueType)

\* C27: two local variables that are in scope together do not have the same
\* register, also when one is declared with the other as its initial value;
\* the register of a declaration is taken once, when the declaration is
\* emitted, and given back once, when its block closes, so that the closed
\* body leaves the registers as it found them.
C27_DistinctRegisters ==
  DeclarationsCompiled =>
    /\ \A v, w \in InScope :
         (v # w /\ ClassOf(v) = ClassOf(w)) => build.RegNum[v] # build.RegNum[w]
    /\ build.doublefree = 0
    /\ build.Registers = Reserved(build.IsActionFunc)

\* The body is one declaration whose initial value resolved to a constant,
\* and it has been emitted.
ConstantDeclared ==
  /\ pc = "done"
  /\ Len(body.Expressions) = 1
  /\ IsDeclaration(Out)
  /\ ~IsNull(Out.Init)
  /\ Out.Init.k = "Constant"

\* The index in the constant pool of the initial value of the declaration.
PoolIndex ==
  IF GetRegType(Out.ValueType) = REGT_FLOAT
  THEN ConstantIndex(build.FloatConstants, GetFloat(Out.Init))
  ELSE ConstantIndex(build.IntConstants, GetInt(Out.Init))

\* C28: a declaration with a constant initial value emits one load of the
\* constant whose destination operand is the register of the variable and
\* whose source operand is the index of the constant in the pool, the order
\* in which an assignment of a constant to a register names them.
C28_ConstantLoadOperands ==
  ConstantDeclared =>
    \E at \in 1..Len(build.code) :
      /\ build.code[at].op = loadops(GetRegType(Out.ValueType))
      /\ build.code[at].a = build.RegNum[Out.id]
      /\ build.code[at].b = PoolIndex

\* The statement resolved to a string cast, which its Resolve leaves in place
\* only over a name or a sound that is not constant, and has been emitted.
StringCastCompiled ==
  /\ pc = "done"
  /\ Len(body.Expressions) = 1
  /\ Out.k = "StringCast"

CastMode == IF Out.basex.ValueType = "TypeName" THEN "N2S" ELSE "So2S"

Casts == {at \in 1..Len(build.code) : build.code[at].op = "CAST"}

\* C29: the emitted string cast of a name or a sound that is not constant is
\* one cast instruction, from a name or from a sound as the type of the
\* operand says, into a string register taken for the result.
C29_StringCastEmitted ==
  StringCastCompiled =>
    /\ Cardinality(Casts) = 1
    /\ \A at \in Casts : build.code[at].mode = CastMode
    /\ build.acquired[REGT_STRING] = 1

\* The statement is a call of clamp with three arguments none of which is a
\* constant, and it has been resolved.
ClampResolved ==
  /\ Resolved
  /\ Len(prog.Expressions) = 1
  /\ Statement.k = "FunctionCall"
  /\ Statement.MethodName = "clamp"
  /\ Len(Statement.ArgList) = 3
  /\ \A a \in 1..3 : Statement.ArgList[a].k = "Identifier"

IsMinMax(n, type, count) == n.k = "MinMax" /\ n.Type = type /\ Len(n.choices) = count

\* C30: clamp(x, lo, hi) becomes min(max(x, lo), hi): a Min of two choices,
\* the first a Max of the first two arguments and the second the third
\* argument.
C30_ClampLowered ==
  ClampResolved =>
    /\ IsMinMax(Out, "Min", 2)
    /\ IsMinMax(Out.choices[1], "Max", 2)

====
